---- MODULE Spec2Model ----
(***************************************************************************)
(* The state store of the phenn map annotation tool (AppState: dispatch,   *)
(* undo, history, listeners), the coastline part of its reducer, and the   *)
(* coastline input layer (CoastlineMode) that turns clicks into actions.   *)
(*                                                                         *)
(* Conventions.  Vertex ids are positive naturals (the source draws random *)
(* strings; the model numbers them in order of creation).  An optional     *)
(* value (null, undefined, an absent field) is a sequence of length at     *)
(* most one: None or Some(v).  Indices into a point list are 0-based as in *)
(* the source; At(points, j) reads one.  Map positions are grid cells that *)
(* lie further apart than CLOSE_LOOP_THRESHOLD, so "near" is "same cell".  *)
(***************************************************************************)
EXTENDS Integers, Sequences, FiniteSets, TLC

VARIABLES
    state,            \* AppState.state: the current snapshot
    history,          \* AppState.history: earlier snapshots, oldest first
    listeners,        \* AppState.listeners, in insertion order
    draggingPointId,  \* CoastlineMode.draggingPointId
    hasEditUI,        \* the sub-mode radio buttons are in the page
    delivered,        \* listener calls made by the last handler, in order
    ret,              \* return value of the last store call (undo)
    last,             \* the last handler run and the store it started from
    run,              \* bookkeeping of dispatches and undos made so far
    heap              \* which objects the snapshots are made of

vars == <<state, history, listeners, draggingPointId, hasEditUI, delivered, ret, last, run,
          heap>>

----------------------------------------------------------------------------
(* Bounds of the model *)

MaxN == 4          \* largest boundary the store is constructed with
MaxCoord == 4      \* grid cells 0..MaxCoord take clicks
MaxDispatch == 5   \* longest history Spec builds
MaxListeners == 2  \* listeners that may subscribe
MaxMoves == 52     \* dispatches per behaviour of SpecHistory
MaxCalls == 3      \* longest history SpecStore builds
MaxGestures == 3     \* snapshots in the history, when every gesture is taken
MaxTrail == 11       \* longest history of a session from the empty boundary
MaxUndo == 5         \* longest history such a session undoes from

(* Program constants *)

maxHistory == 50
MinClosed == 3     \* vertices a loop needs before a click closes it

----------------------------------------------------------------------------
(* Optional values *)

None == <<>>
Some(v) == <<v>>
IsSome(o) == Len(o) = 1
Get(o) == o[1]

At(points, j) == points[j + 1]

Reverse(s) == [k \in 1..Len(s) |-> s[Len(s) + 1 - k]]

Min(a, b) == IF a <= b THEN a ELSE b

----------------------------------------------------------------------------
(* Inputs *)

Cells == 0..MaxCoord
Spot(c) == [x |-> c, y |-> c % 2]
Listeners == 1..MaxListeners
SubModes == {"add", "remove", "move"}

----------------------------------------------------------------------------
(* State *)

createInitialState ==
    [ coastlineSubMode |-> "add",
      coastline |-> [points |-> <<>>, isClosed |-> FALSE],
      pendingEdit |-> None ]

\* A snapshot holding a closed boundary of n vertices with ids 1..n, one per
\* grid cell, as the constructor's initialState argument.
ClosedState(n) ==
    [ coastlineSubMode |-> "add",
      coastline |-> [ points |-> [k \in 1..n |-> [id |-> k, x |-> Spot(k - 1).x, y |-> Spot(k - 1).y]],
                      isClosed |-> TRUE ],
      pendingEdit |-> None ]

\* JSON.parse(JSON.stringify(obj)): a fresh structure with the same plain
\* data.  Absent optional fields stay absent; every value of the model is
\* plain data (finite numbers, strings, booleans, arrays, objects).
ClonePoint(p) == [id |-> p.id, x |-> p.x, y |-> p.y]

ClonePoints(ps) == [k \in 1..Len(ps) |-> ClonePoint(ps[k])]

CloneEdit(e) ==
    [ type |-> e.type,
      points |-> ClonePoints(e.points),
      startAnchorId |-> e.startAnchorId,
      endAnchorId |-> e.endAnchorId,
      replacedPointIds |-> e.replacedPointIds ]

deepClone(s) ==
    [ coastlineSubMode |-> s.coastlineSubMode,
      coastline |-> [points |-> ClonePoints(s.coastline.points), isClosed |-> s.coastline.isClosed],
      pendingEdit |-> IF IsSome(s.pendingEdit) THEN Some(CloneEdit(Get(s.pendingEdit))) ELSE None ]

----------------------------------------------------------------------------
(* Array helpers of the reducer and of CoastlineMode *)

\* points.findIndex(p => p.id === id): the first match, or -1
findIndex(points, id) ==
    IF \E k \in 1..Len(points) : points[k].id = id
    THEN (CHOOSE k \in 1..Len(points) :
            /\ points[k].id = id
            /\ \A m \in 1..(k - 1) : points[m].id # id) - 1
    ELSE -1

\* points.filter(p => p.id !== pointId)
RECURSIVE filterOut(_, _)
filterOut(points, pointId) ==
    IF points = <<>> THEN <<>>
    ELSE IF Head(points).id # pointId
         THEN <<Head(points)>> \o filterOut(Tail(points), pointId)
         ELSE filterOut(Tail(points), pointId)

\* let i = (startIdx + 1) % n; while (i !== endIdx) { push(i); i = (i + 1) % n }
RECURSIVE walkCW(_, _, _, _)
walkCW(i, endIdx, n, acc) ==
    IF i = endIdx THEN acc
    ELSE walkCW((i + 1) % n, endIdx, n, Append(acc, i))

\* i = (startIdx - 1 + n) % n; while (i !== endIdx) { push(i); i = (i - 1 + n) % n }
RECURSIVE walkCCW(_, _, _, _)
walkCCW(i, endIdx, n, acc) ==
    IF i = endIdx THEN acc
    ELSE walkCCW((i - 1 + n) % n, endIdx, n, Append(acc, i))

\* The iterations of a walk, counted while they last.  The loop body runs
\* once for each index met before endIdx; the count stops at fuel + 1 for a
\* walk that has not met endIdx after fuel iterations.

\* the test i !== endIdx made after the body instead of before it
RECURSIVE stepsCW_TestAfter(_, _, _, _)
stepsCW_TestAfter(i, endIdx, n, fuel) ==
    IF fuel = 0 THEN 1
    ELSE IF (i + 1) % n = endIdx THEN 1
    ELSE 1 + stepsCW_TestAfter((i + 1) % n, endIdx, n, fuel - 1)

RECURSIVE stepsCW(_, _, _, _)
stepsCW(i, endIdx, n, fuel) ==
    IF i = endIdx THEN 0
    ELSE IF fuel = 0 THEN 1
    ELSE 1 + stepsCW((i + 1) % n, endIdx, n, fuel - 1)

RECURSIVE stepsCCW(_, _, _, _)
stepsCCW(i, endIdx, n, fuel) ==
    IF i = endIdx THEN 0
    ELSE IF fuel = 0 THEN 1
    ELSE 1 + stepsCCW((i - 1 + n) % n, endIdx, n, fuel - 1)

\* the forward walk begun at the start anchor itself
commitPathCW_FromStart(startIdx, endIdx, n) == walkCW(startIdx % n, endIdx, n, <<>>)

commitPathCW(startIdx, endIdx, n) == walkCW((startIdx + 1) % n, endIdx, n, <<>>)

commitPathCCW(startIdx, endIdx, n) == walkCCW((startIdx - 1 + n) % n, endIdx, n, <<>>)

useCW(startIdx, endIdx, n) ==
    Len(commitPathCW(startIdx, endIdx, n)) <= Len(commitPathCCW(startIdx, endIdx, n))

\* for (j = lo; j <= hi; j++) newPoints.push(points[j])
slice(points, lo, hi) == SubSeq(points, lo + 1, hi + 1)

\* the draft inserted after the start anchor, nothing removed
spliceCW_KeepsArc(points, startIdx, endIdx, newPendingPoints) ==
    slice(points, 0, startIdx) \o newPendingPoints
    \o slice(points, startIdx + 1, Len(points) - 1)

spliceCW(points, startIdx, endIdx, newPendingPoints) ==
    slice(points, 0, startIdx) \o newPendingPoints \o slice(points, endIdx, Len(points) - 1)

\* the draft inserted as drawn, not reversed
spliceCCW_NoReverse(points, startIdx, endIdx, newPendingPoints) ==
    slice(points, 0, endIdx) \o newPendingPoints \o slice(points, startIdx, Len(points) - 1)

spliceCCW(points, startIdx, endIdx, newPendingPoints) ==
    slice(points, 0, endIdx) \o Reverse(newPendingPoints) \o slice(points, startIdx, Len(points) - 1)

buildNewPoints(points, startIdx, endIdx, newPendingPoints) ==
    IF useCW(startIdx, endIdx, Len(points))
    THEN spliceCW(points, startIdx, endIdx, newPendingPoints)
    ELSE spliceCCW(points, startIdx, endIdx, newPendingPoints)

----------------------------------------------------------------------------
(* The reducer (coastline actions).  newId is the id generateId() returns. *)

IdsOf(s) ==
    {s.coastline.points[k].id : k \in 1..Len(s.coastline.points)}
    \cup (IF IsSome(s.pendingEdit)
          THEN {Get(s.pendingEdit).points[k].id : k \in 1..Len(Get(s.pendingEdit).points)}
          ELSE {})

Max(ids) == IF ids = {} THEN 0 ELSE CHOOSE m \in ids : \A k \in ids : k <= m

\* Math.random().toString(36).substring(2, 11): an id that no snapshot of the
\* store and no drag in progress holds (the first such number; a repeated
\* draw of the random source is not modelled).
generateId(s, h) ==
    1 + Max(IdsOf(s) \cup UNION {IdsOf(h[k]) : k \in 1..Len(h)}
                    \cup {draggingPointId[k] : k \in 1..Len(draggingPointId)})

\* Two of the values generateId() can return on one call: Math.random gives
\* a new value on each call.
generateIdDraws(s, h) == {generateId(s, h), generateId(s, h) + 1}

\* the new vertex put in front of an open boundary
reduceAddPoint_Prepends(s, payload, newId) ==
    LET newPoint == [id |-> newId, x |-> payload.x, y |-> payload.y]
        pendingEdit == IF IsSome(s.pendingEdit)
                       THEN Get(s.pendingEdit)
                       ELSE [ type |-> "replace", points |-> <<>>, startAnchorId |-> None,
                              endAnchorId |-> None, replacedPointIds |-> None ]
    IN IF s.coastline.isClosed
       THEN [s EXCEPT !.pendingEdit =
                Some([pendingEdit EXCEPT !.points = Append(pendingEdit.points, newPoint)])]
       ELSE [s EXCEPT !.coastline.points = <<newPoint>> \o s.coastline.points]

\* the new vertex added to the boundary also when it is closed
reduceAddPoint_ToBoundary(s, payload, newId) ==
    LET newPoint == [id |-> newId, x |-> payload.x, y |-> payload.y]
    IN [s EXCEPT !.coastline.points = Append(s.coastline.points, newPoint)]

reduceAddPoint(s, payload, newId) ==
    LET newPoint == [id |-> newId, x |-> payload.x, y |-> payload.y]
        pendingEdit == IF IsSome(s.pendingEdit)
                       THEN Get(s.pendingEdit)
                       ELSE [ type |-> "replace", points |-> <<>>, startAnchorId |-> None,
                              endAnchorId |-> None, replacedPointIds |-> None ]
    IN IF s.coastline.isClosed
       THEN [s EXCEPT !.pendingEdit =
                Some([pendingEdit EXCEPT !.points = Append(pendingEdit.points, newPoint)])]
       ELSE [s EXCEPT !.coastline.points = Append(s.coastline.points, newPoint)]

\* a boundary of fewer than three vertices is not closed
reduceCloseCoastline_NeedsThree(s) ==
    IF Len(s.coastline.points) >= MinClosed
    THEN [s EXCEPT !.coastline.isClosed = TRUE]
    ELSE s

reduceCloseCoastline(s) == [s EXCEPT !.coastline.isClosed = TRUE]

reduceSetPendingEdit(s, payload) == [s EXCEPT !.pendingEdit = payload]

\* an edit with an anchor that no vertex has is kept pending
reduceCommitEdit_KeepsDangling(s) ==
    IF ~IsSome(s.pendingEdit) THEN s
    ELSE LET pe == Get(s.pendingEdit)
             points == s.coastline.points
         IN IF pe.type = "add"
            THEN [s EXCEPT !.coastline = [points |-> points \o pe.points, isClosed |-> TRUE],
                           !.pendingEdit = None]
            ELSE IF pe.type = "replace" /\ IsSome(pe.startAnchorId) /\ IsSome(pe.endAnchorId)
            THEN LET startIdx == findIndex(points, Get(pe.startAnchorId))
                     endIdx == findIndex(points, Get(pe.endAnchorId))
                 IN IF startIdx = -1 \/ endIdx = -1
                    THEN s
                    ELSE [s EXCEPT !.coastline.points = buildNewPoints(points, startIdx, endIdx, pe.points),
                                   !.pendingEdit = None]
            ELSE [s EXCEPT !.pendingEdit = None]

\* an edit without end anchor applied in part: its draft is appended
reduceCommitEdit_Partial(s) ==
    IF ~IsSome(s.pendingEdit) THEN s
    ELSE LET pe == Get(s.pendingEdit)
             points == s.coastline.points
         IN IF pe.type = "add" \/ ~IsSome(pe.endAnchorId)
            THEN [s EXCEPT !.coastline = [points |-> points \o pe.points, isClosed |-> TRUE],
                           !.pendingEdit = None]
            ELSE IF pe.type = "replace" /\ IsSome(pe.startAnchorId) /\ IsSome(pe.endAnchorId)
            THEN LET startIdx == findIndex(points, Get(pe.startAnchorId))
                     endIdx == findIndex(points, Get(pe.endAnchorId))
                 IN IF startIdx = -1 \/ endIdx = -1
                    THEN [s EXCEPT !.pendingEdit = None]
                    ELSE [s EXCEPT !.coastline.points = buildNewPoints(points, startIdx, endIdx, pe.points),
                                   !.pendingEdit = None]
            ELSE [s EXCEPT !.pendingEdit = None]

reduceCommitEdit(s) ==
    IF ~IsSome(s.pendingEdit) THEN s
    ELSE LET pe == Get(s.pendingEdit)
             points == s.coastline.points
         IN IF pe.type = "add"
            THEN [s EXCEPT !.coastline = [points |-> points \o pe.points, isClosed |-> TRUE],
                           !.pendingEdit = None]
            ELSE IF pe.type = "replace" /\ IsSome(pe.startAnchorId) /\ IsSome(pe.endAnchorId)
            THEN LET startIdx == findIndex(points, Get(pe.startAnchorId))
                     endIdx == findIndex(points, Get(pe.endAnchorId))
                 IN IF startIdx = -1 \/ endIdx = -1
                    THEN [s EXCEPT !.pendingEdit = None]
                    ELSE [s EXCEPT !.coastline.points = buildNewPoints(points, startIdx, endIdx, pe.points),
                                   !.pendingEdit = None]
            ELSE [s EXCEPT !.pendingEdit = None]

\* a cancel with nothing pending reopens the boundary
reduceCancelEdit_Reopens(s) ==
    IF IsSome(s.pendingEdit)
    THEN [s EXCEPT !.pendingEdit = None]
    ELSE [s EXCEPT !.coastline.isClosed = FALSE]

reduceCancelEdit(s) == [s EXCEPT !.pendingEdit = None]

\* a boundary left with fewer than three vertices is reopened
reduceRemovePoint_Reopens(s, pointId) ==
    [s EXCEPT !.coastline.points = filterOut(s.coastline.points, pointId),
              !.coastline.isClosed =
                  s.coastline.isClosed
                  /\ Len(filterOut(s.coastline.points, pointId)) >= MinClosed]

reduceRemovePoint(s, pointId) ==
    [s EXCEPT !.coastline.points = filterOut(s.coastline.points, pointId)]

\* the moved vertex is put last
reduceMovePoint_ToEnd(s, payload) ==
    [s EXCEPT !.coastline.points =
        filterOut(s.coastline.points, payload.id)
        \o [k \in 1..(Len(s.coastline.points) - Len(filterOut(s.coastline.points, payload.id))) |->
                [id |-> payload.id, x |-> payload.x, y |-> payload.y]]]

reduceMovePoint(s, payload) ==
    [s EXCEPT !.coastline.points =
        [k \in 1..Len(s.coastline.points) |->
            IF s.coastline.points[k].id = payload.id
            THEN [s.coastline.points[k] EXCEPT !.x = payload.x, !.y = payload.y]
            ELSE s.coastline.points[k]]]

\* an unknown action type resets the snapshot
reduce_DefaultResets(s, type, payload, newId) ==
    CASE type = "SET_COASTLINE_SUBMODE" -> [s EXCEPT !.coastlineSubMode = payload]
      [] type = "ADD_POINT" -> reduceAddPoint(s, payload, newId)
      [] type = "CLOSE_COASTLINE" -> reduceCloseCoastline(s)
      [] type = "SET_PENDING_EDIT" -> reduceSetPendingEdit(s, payload)
      [] type = "COMMIT_EDIT" -> reduceCommitEdit(s)
      [] type = "CANCEL_EDIT" -> reduceCancelEdit(s)
      [] type = "REMOVE_POINT" -> reduceRemovePoint(s, payload)
      [] type = "MOVE_POINT" -> reduceMovePoint(s, payload)
      [] type = "LOAD_STATE" -> payload
      [] type = "UNDO" -> s
      [] OTHER -> createInitialState

reduce(s, type, payload, newId) ==
    CASE type = "SET_COASTLINE_SUBMODE" -> [s EXCEPT !.coastlineSubMode = payload]
      [] type = "ADD_POINT" -> reduceAddPoint(s, payload, newId)
      [] type = "CLOSE_COASTLINE" -> reduceCloseCoastline(s)
      [] type = "SET_PENDING_EDIT" -> reduceSetPendingEdit(s, payload)
      [] type = "COMMIT_EDIT" -> reduceCommitEdit(s)
      [] type = "CANCEL_EDIT" -> reduceCancelEdit(s)
      [] type = "REMOVE_POINT" -> reduceRemovePoint(s, payload)
      [] type = "MOVE_POINT" -> reduceMovePoint(s, payload)
      [] type = "LOAD_STATE" -> payload
      [] type = "UNDO" -> s
      [] OTHER -> s

----------------------------------------------------------------------------
(* The store.  A store value S gathers the fields a handler reads and      *)
(* writes, so that a handler making several calls is one step:             *)
(*   state, history  the fields of AppState                                *)
(*   out   the listener calls made so far                                  *)
(*   fired whether an event was built and handed to the listeners          *)
(*   ret   the value the last undo() returned                              *)
(*   sent  the actions dispatched so far, as [type, payload]               *)
(*   run   the record of a run of dispatches followed by undo() calls,     *)
(*         kept while clean (no dispatch after an undo(), and recording    *)
(*         switched on): pre the snapshots that were current just before   *)
(*         each dispatch, undos the undo() calls that restored a snapshot  *)
(***************************************************************************)

Store == [ state |-> state, history |-> history,
           out |-> <<>>, fired |-> FALSE, ret |-> None, run |-> run, sent |-> <<>> ]

\* a full history never evicts
pushHistory_NoEvict(h, previousState) == Append(h, previousState)

\* a full history drops the snapshot just pushed
pushHistory_EvictNewest(h, previousState) ==
    LET pushed == Append(h, previousState)
    IN IF Len(pushed) > maxHistory THEN SubSeq(pushed, 1, maxHistory) ELSE pushed

\* this.history.push(previousState); if (length > maxHistory) this.history.shift()
pushHistory(h, previousState) ==
    LET pushed == Append(h, previousState)
    IN IF Len(pushed) > maxHistory THEN Tail(pushed) ELSE pushed

\* the first listener is passed over
notify_SkipFirst(ls, event, current) ==
    [k \in 1..(Len(ls) - 1) |-> [to |-> ls[k + 1], event |-> event, seen |-> current]]

\* this.listeners.forEach((listener) => listener(event)), made while this.state
\* is current: each call is recorded with the listener, the event, and what
\* getState() returns during the call
notify(ls, event, current) ==
    [k \in 1..Len(ls) |-> [to |-> ls[k], event |-> event, seen |-> current]]

runAfterDispatch(r, before) ==
    IF r.clean /\ r.undos = 0
    THEN [r EXCEPT !.pre = Append(r.pre, before)]
    ELSE [pre |-> <<>>, undos |-> 0, clean |-> FALSE]

\* the listeners run before this.state is replaced
dispatch_NotifyFirst(S, ls, type, payload) ==
    LET previousState == deepClone(S.state)
        newHistory == IF type # "UNDO" THEN pushHistory(S.history, previousState) ELSE S.history
        newState == reduce(S.state, type, payload, generateId(S.state, S.history))
        event == [type |-> type, payload |-> payload,
                  previousState |-> previousState, newState |-> newState]
    IN [ state |-> newState,
         history |-> newHistory,
         out |-> S.out \o notify(ls, event, S.state),
         fired |-> TRUE,
         ret |-> None,
         run |-> runAfterDispatch(S.run, S.state),
         sent |-> Append(S.sent, [type |-> type, payload |-> payload]) ]

\* a dispatch that leaves the state as it was saves nothing
dispatch_SkipsNoOp(S, ls, type, payload) ==
    LET previousState == deepClone(S.state)
        newState == reduce(S.state, type, payload, generateId(S.state, S.history))
        newHistory == IF type # "UNDO" /\ newState # S.state
                      THEN pushHistory(S.history, previousState) ELSE S.history
        event == [type |-> type, payload |-> payload,
                  previousState |-> previousState, newState |-> newState]
    IN [ state |-> newState,
         history |-> newHistory,
         out |-> S.out \o notify(ls, event, newState),
         fired |-> TRUE,
         ret |-> None,
         run |-> runAfterDispatch(S.run, S.state),
         sent |-> Append(S.sent, [type |-> type, payload |-> payload]) ]

\* the action type UNDO restores the last snapshot of the history
dispatch_UndoRestores(S, ls, type, payload) ==
    LET previousState == deepClone(S.state)
        restores == type = "UNDO" /\ Len(S.history) > 0
        newHistory == IF restores THEN SubSeq(S.history, 1, Len(S.history) - 1)
                      ELSE IF type # "UNDO" THEN pushHistory(S.history, previousState)
                      ELSE S.history
        newState == IF restores THEN S.history[Len(S.history)]
                    ELSE reduce(S.state, type, payload, generateId(S.state, S.history))
        event == [type |-> type, payload |-> payload,
                  previousState |-> previousState, newState |-> newState]
    IN [ state |-> newState,
         history |-> newHistory,
         out |-> S.out \o notify(ls, event, newState),
         fired |-> TRUE,
         ret |-> None,
         run |-> runAfterDispatch(S.run, S.state),
         sent |-> Append(S.sent, [type |-> type, payload |-> payload]) ]

dispatch(S, ls, type, payload) ==
    LET previousState == deepClone(S.state)
        newHistory == IF type # "UNDO" THEN pushHistory(S.history, previousState) ELSE S.history
        newState == reduce(S.state, type, payload, generateId(S.state, S.history))
        event == [type |-> type, payload |-> payload,
                  previousState |-> previousState, newState |-> newState]
    IN [ state |-> newState,
         history |-> newHistory,
         out |-> S.out \o notify(ls, event, newState),
         fired |-> TRUE,
         ret |-> None,
         run |-> runAfterDispatch(S.run, S.state),
         sent |-> Append(S.sent, [type |-> type, payload |-> payload]) ]

\* history.shift() in place of history.pop(): the oldest snapshot comes back
undo_Oldest(S, ls) ==
    IF Len(S.history) = 0
    THEN [S EXCEPT !.ret = Some(FALSE)]
    ELSE LET previousState == S.history[1]
             currentState == S.state
             event == [type |-> "UNDO", payload |-> None,
                       previousState |-> currentState, newState |-> previousState]
         IN [ state |-> previousState,
              history |-> Tail(S.history),
              out |-> S.out \o notify(ls, event, previousState),
              fired |-> TRUE,
              ret |-> Some(TRUE),
              run |-> IF S.run.clean THEN [S.run EXCEPT !.undos = S.run.undos + 1] ELSE S.run,
              sent |-> S.sent ]

\* the state that was current is put on the history in place of the
\* snapshot taken off: the next undo() brings it back
undo_KeepsCurrent(S, ls) ==
    IF Len(S.history) = 0
    THEN [S EXCEPT !.ret = Some(FALSE)]
    ELSE LET previousState == S.history[Len(S.history)]
             currentState == S.state
             event == [type |-> "UNDO", payload |-> None,
                       previousState |-> currentState, newState |-> previousState]
         IN [ state |-> previousState,
              history |-> Append(SubSeq(S.history, 1, Len(S.history) - 1), currentState),
              out |-> S.out \o notify(ls, event, previousState),
              fired |-> TRUE,
              ret |-> Some(TRUE),
              run |-> IF S.run.clean THEN [S.run EXCEPT !.undos = S.run.undos + 1] ELSE S.run,
              sent |-> S.sent ]

undo(S, ls) ==
    IF Len(S.history) = 0
    THEN [S EXCEPT !.ret = Some(FALSE)]
    ELSE LET previousState == S.history[Len(S.history)]
             currentState == S.state
             event == [type |-> "UNDO", payload |-> None,
                       previousState |-> currentState, newState |-> previousState]
         IN [ state |-> previousState,
              history |-> SubSeq(S.history, 1, Len(S.history) - 1),
              out |-> S.out \o notify(ls, event, previousState),
              fired |-> TRUE,
              ret |-> Some(TRUE),
              run |-> IF S.run.clean THEN [S.run EXCEPT !.undos = S.run.undos + 1] ELSE S.run,
              sent |-> S.sent ]

\* The step of a handler that ends with store S.
Finish(S, op) ==
    /\ state' = S.state
    /\ history' = S.history
    /\ delivered' = S.out
    /\ ret' = S.ret
    /\ run' = S.run
    /\ hasEditUI' = (hasEditUI \/ (S.fired /\ S.state.coastline.isClosed))
    /\ last' = [ op |-> op, state |-> state, listeners |-> listeners,
                 sent |-> S.sent,
                 histLen |-> Len(history),
                 top |-> IF Len(history) > 0 THEN Some(history[Len(history)]) ELSE None ]
    /\ UNCHANGED heap

----------------------------------------------------------------------------
(* CoastlineMode: the input layer *)

\* calculateDistance(...) < CLOSE_LOOP_THRESHOLD, on the grid
near(x1, y1, x2, y2) == x1 = x2 /\ y1 = y2

\* The first point of the coastline near (x, y), if any.
getPointAtLocation(s, x, y) ==
    LET points == s.coastline.points
        hits == {k \in 1..Len(points) : near(x, y, points[k].x, points[k].y)}
    IN IF hits = {} THEN None
       ELSE Some(points[CHOOSE k \in hits : \A m \in hits : k <= m])

RECURSIVE idsCW(_, _, _, _)
idsCW(points, i, endIdx, acc) ==
    IF i = endIdx THEN acc
    ELSE idsCW(points, (i + 1) % Len(points), endIdx, Append(acc, At(points, i).id))

RECURSIVE idsCCW(_, _, _, _)
idsCCW(points, i, endIdx, acc) ==
    IF i = endIdx THEN acc
    ELSE idsCCW(points, (i - 1 + Len(points)) % Len(points), endIdx, Append(acc, At(points, i).id))

\* ties resolved to the backward path
findReplacedPointIds_StrictLess(s, startId, endId) ==
    LET points == s.coastline.points
        n == Len(points)
        startIdx == findIndex(points, startId)
        endIdx == findIndex(points, endId)
    IN IF startIdx = -1 \/ endIdx = -1 THEN <<>>
       ELSE LET pathCW == idsCW(points, (startIdx + 1) % n, endIdx, <<>>)
                pathCCW == idsCCW(points, (startIdx - 1 + n) % n, endIdx, <<>>)
            IN IF Len(pathCW) < Len(pathCCW) THEN pathCW ELSE pathCCW

\* the forward path whatever the lengths
findReplacedPointIds_Forward(s, startId, endId) ==
    LET points == s.coastline.points
        n == Len(points)
        startIdx == findIndex(points, startId)
        endIdx == findIndex(points, endId)
    IN IF startIdx = -1 \/ endIdx = -1 THEN <<>>
       ELSE idsCW(points, (startIdx + 1) % n, endIdx, <<>>)

findReplacedPointIds(s, startId, endId) ==
    LET points == s.coastline.points
        n == Len(points)
        startIdx == findIndex(points, startId)
        endIdx == findIndex(points, endId)
    IN IF startIdx = -1 \/ endIdx = -1 THEN <<>>
       ELSE LET pathCW == idsCW(points, (startIdx + 1) % n, endIdx, <<>>)
                pathCCW == idsCCW(points, (startIdx - 1 + n) % n, endIdx, <<>>)
            IN IF Len(pathCW) <= Len(pathCCW) THEN pathCW ELSE pathCCW

\* the end anchor click builds a new edit and drops the draft
handleAddModeClick_FreshEdit(S, ls, x, y, clickedPoint) ==
    LET pendingEdit == S.state.pendingEdit
    IN IF ~IsSome(pendingEdit)
       THEN IF IsSome(clickedPoint)
            THEN dispatch(S, ls, "SET_PENDING_EDIT",
                     Some([ type |-> "replace", points |-> <<>>,
                            startAnchorId |-> Some(Get(clickedPoint).id),
                            endAnchorId |-> None, replacedPointIds |-> None ]))
            ELSE S
       ELSE LET pe == Get(pendingEdit)
            IN IF IsSome(pe.startAnchorId) /\ ~IsSome(pe.endAnchorId)
               THEN IF IsSome(clickedPoint) /\ Some(Get(clickedPoint).id) # pe.startAnchorId
                    THEN dispatch(S, ls, "SET_PENDING_EDIT",
                             Some([ type |-> "replace", points |-> <<>>,
                                    startAnchorId |-> pe.startAnchorId,
                                    endAnchorId |-> Some(Get(clickedPoint).id),
                                    replacedPointIds |->
                                        Some(findReplacedPointIds(S.state, Get(pe.startAnchorId),
                                                                  Get(clickedPoint).id)) ]))
                    ELSE IF ~IsSome(clickedPoint)
                    THEN dispatch(S, ls, "ADD_POINT", [x |-> x, y |-> y])
                    ELSE dispatch(S, ls, "CANCEL_EDIT", None)
               ELSE S

\* with no edit pending, a click on empty space draws a vertex
handleAddModeClick_DrawsUnanchored(S, ls, x, y, clickedPoint) ==
    LET pendingEdit == S.state.pendingEdit
    IN IF ~IsSome(pendingEdit)
       THEN IF IsSome(clickedPoint)
            THEN dispatch(S, ls, "SET_PENDING_EDIT",
                     Some([ type |-> "replace", points |-> <<>>,
                            startAnchorId |-> Some(Get(clickedPoint).id),
                            endAnchorId |-> None, replacedPointIds |-> None ]))
            ELSE dispatch(S, ls, "ADD_POINT", [x |-> x, y |-> y])
       ELSE LET pe == Get(pendingEdit)
            IN IF IsSome(pe.startAnchorId) /\ ~IsSome(pe.endAnchorId)
               THEN IF IsSome(clickedPoint) /\ Some(Get(clickedPoint).id) # pe.startAnchorId
                    THEN dispatch(S, ls, "SET_PENDING_EDIT",
                             Some([pe EXCEPT
                                 !.endAnchorId = Some(Get(clickedPoint).id),
                                 !.replacedPointIds =
                                     Some(findReplacedPointIds(S.state, Get(pe.startAnchorId),
                                                               Get(clickedPoint).id))]))
                    ELSE IF ~IsSome(clickedPoint)
                    THEN dispatch(S, ls, "ADD_POINT", [x |-> x, y |-> y])
                    ELSE dispatch(S, ls, "CANCEL_EDIT", None)
               ELSE S

handleAddModeClick(S, ls, x, y, clickedPoint) ==
    LET pendingEdit == S.state.pendingEdit
    IN IF ~IsSome(pendingEdit)
       THEN IF IsSome(clickedPoint)
            THEN dispatch(S, ls, "SET_PENDING_EDIT",
                     Some([ type |-> "replace", points |-> <<>>,
                            startAnchorId |-> Some(Get(clickedPoint).id),
                            endAnchorId |-> None, replacedPointIds |-> None ]))
            ELSE S
       ELSE LET pe == Get(pendingEdit)
            IN IF IsSome(pe.startAnchorId) /\ ~IsSome(pe.endAnchorId)
               THEN IF IsSome(clickedPoint) /\ Some(Get(clickedPoint).id) # pe.startAnchorId
                    THEN dispatch(S, ls, "SET_PENDING_EDIT",
                             Some([pe EXCEPT
                                 !.endAnchorId = Some(Get(clickedPoint).id),
                                 !.replacedPointIds =
                                     Some(findReplacedPointIds(S.state, Get(pe.startAnchorId),
                                                               Get(clickedPoint).id))]))
                    ELSE IF ~IsSome(clickedPoint)
                    THEN dispatch(S, ls, "ADD_POINT", [x |-> x, y |-> y])
                    ELSE dispatch(S, ls, "CANCEL_EDIT", None)
               ELSE S

handleRemoveModeClick(S, ls, clickedPoint) ==
    IF IsSome(clickedPoint)
    THEN IF Len(S.state.coastline.points) <= 3 THEN S
         ELSE dispatch(S, ls, "REMOVE_POINT", Get(clickedPoint).id)
    ELSE S

handleEditClick(S, ls, x, y) ==
    LET clickedPoint == getPointAtLocation(S.state, x, y)
    IN CASE S.state.coastlineSubMode = "add" -> handleAddModeClick(S, ls, x, y, clickedPoint)
         [] S.state.coastlineSubMode = "remove" -> handleRemoveModeClick(S, ls, clickedPoint)
         [] OTHER -> S

handleMapClick(S, ls, x, y) ==
    LET points == S.state.coastline.points
    IN IF S.state.coastline.isClosed THEN handleEditClick(S, ls, x, y)
       ELSE IF S.state.coastlineSubMode # "add" THEN S
       ELSE IF Len(points) >= 3 /\ near(x, y, points[1].x, points[1].y)
            THEN dispatch(S, ls, "CLOSE_COASTLINE", None)
            ELSE dispatch(S, ls, "ADD_POINT", [x |-> x, y |-> y])

----------------------------------------------------------------------------
(* Object identity.  A snapshot is an object that refers to vertex objects: *)
(* its refs are the address of the snapshot object (self), of the vertices  *)
(* of the boundary in order (points) and of the draft vertices of the       *)
(* pending edit (drafts).  Two snapshots alias when they have an address in *)
(* common.  Addresses are positive naturals; base is the highest in use.    *)

\* a snapshot built from scratch: every object is new
newRefs(s, base) ==
    [ self |-> base + 1,
      points |-> [k \in 1..Len(s.coastline.points) |-> base + 1 + k],
      drafts |-> IF IsSome(s.pendingEdit)
                 THEN [k \in 1..Len(Get(s.pendingEdit).points) |->
                          base + 1 + Len(s.coastline.points) + k]
                 ELSE <<>> ]

\* the store after construction with snapshot s0
newHeap(s0) == [live |-> newRefs(s0, 0), hist |-> <<>>, prior |-> <<>>]

----------------------------------------------------------------------------
(* Initial states: new AppState(initialState) with no listener yet *)

InitialStates == {createInitialState} \cup {ClosedState(n) : n \in MinClosed..MaxN}

InitWith(s0, recording) ==
    /\ state = s0
    /\ history = <<>>
    /\ listeners = <<>>
    /\ draggingPointId = None
    /\ hasEditUI = s0.coastline.isClosed
    /\ delivered = <<>>
    /\ ret = None
    /\ last = [op |-> "init", state |-> s0, listeners |-> <<>>, sent |-> <<>>,
               histLen |-> 0, top |-> None]
    /\ run = [pre |-> <<>>, undos |-> 0, clean |-> recording]
    /\ heap = newHeap(s0)

Init == \E s0 \in InitialStates : InitWith(s0, FALSE)

----------------------------------------------------------------------------
(* Steps: one per handler *)

Within(S) == Len(S.history) <= MaxDispatch

\* map 'click' at grid cell c
MapClick(c) ==
    LET S == handleMapClick(Store, listeners, Spot(c).x, Spot(c).y)
    IN /\ Within(S)
       /\ Finish(S, "MapClick")
       /\ UNCHANGED <<listeners, draggingPointId>>

\* dispatch('COMMIT_EDIT', null), as the commit button issues it, by any
\* caller of the store while an edit is pending
CommitEdit ==
    LET S == dispatch(Store, listeners, "COMMIT_EDIT", None)
    IN /\ IsSome(state.pendingEdit)
       /\ Within(S)
       /\ Finish(S, "COMMIT_EDIT")
       /\ UNCHANGED <<listeners, draggingPointId>>

\* dispatch('CANCEL_EDIT', null), as the cancel button issues it, by any
\* caller of the store while an edit is pending
CancelEdit ==
    LET S == dispatch(Store, listeners, "CANCEL_EDIT", None)
    IN /\ IsSome(state.pendingEdit)
       /\ Within(S)
       /\ Finish(S, "CANCEL_EDIT")
       /\ UNCHANGED <<listeners, draggingPointId>>

\* a sub-mode radio button: two dispatches
SubModeChange(value) ==
    LET S == dispatch(dispatch(Store, listeners, "SET_COASTLINE_SUBMODE", value),
                      listeners, "CANCEL_EDIT", None)
    IN /\ hasEditUI
       /\ Within(S)
       /\ Finish(S, "SubModeChange")
       /\ UNCHANGED <<listeners, draggingPointId>>

\* 'mousedown' on the marker of the k-th point
MouseDownOnPoint(k) ==
    /\ k \in 1..Len(state.coastline.points)
    /\ state.coastlineSubMode = "move" /\ state.coastline.isClosed
    /\ draggingPointId' = Some(state.coastline.points[k].id)
    /\ Finish(Store, "MouseDownOnPoint")
    /\ UNCHANGED listeners

\* map 'mousemove' over grid cell c
MouseMove(c) ==
    LET S == dispatch(Store, listeners, "MOVE_POINT",
                      [id |-> Get(draggingPointId), x |-> Spot(c).x, y |-> Spot(c).y])
    IN /\ IsSome(draggingPointId)
       /\ Within(S)
       /\ Finish(S, "MOVE_POINT")
       /\ UNCHANGED <<listeners, draggingPointId>>

\* map 'mouseup'
MouseUp ==
    /\ IsSome(draggingPointId)
    /\ draggingPointId' = None
    /\ Finish(Store, "MouseUp")
    /\ UNCHANGED listeners

\* the undo button and Ctrl+Z
UndoClick ==
    /\ Finish(undo(Store, listeners), "undo")
    /\ UNCHANGED <<listeners, draggingPointId>>

\* subscribe(listener): Set.add keeps the first insertion
Subscribe(l) ==
    /\ listeners' = IF \E k \in 1..Len(listeners) : listeners[k] = l
                    THEN listeners
                    ELSE Append(listeners, l)
    /\ UNCHANGED <<state, history, draggingPointId, hasEditUI, delivered, ret, last, run,
                   heap>>

\* the function subscribe returned: Set.delete
Unsubscribe(l) ==
    /\ \E k \in 1..Len(listeners) : listeners[k] = l
    /\ listeners' = SelectSeq(listeners, LAMBDA m : m # l)
    /\ UNCHANGED <<state, history, draggingPointId, hasEditUI, delivered, ret, last, run,
                   heap>>

\* Drawing and editing: clicks, commit, cancel, undo.
Next ==
    \/ \E c \in Cells : MapClick(c)
    \/ CommitEdit
    \/ CancelEdit
    \/ UndoClick

Spec == Init /\ [][Next]_vars

----------------------------------------------------------------------------
(* The whole input layer: clicks, the commit and cancel buttons, the        *)
(* sub-mode radio buttons, drags of a vertex, undo.  The first or the      *)
(* third vertex is dragged, to the last cell of the grid.                  *)

NextUI ==
    /\ \/ \E c \in Cells : MapClick(c)
       \/ CommitEdit
       \/ CancelEdit
       \/ \E value \in SubModes : SubModeChange(value)
       \/ \E k \in {1, MinClosed} : MouseDownOnPoint(k)
       \/ MouseMove(MaxCoord)
       \/ MouseUp
       \/ UndoClick
    /\ Len(history') <= MaxGestures

\* the store as constructed, or constructed with a closed boundary
InitUI == \E s0 \in {createInitialState, ClosedState(MinClosed)} : InitWith(s0, FALSE)

SpecUI == InitUI /\ [][NextUI]_vars

----------------------------------------------------------------------------
(* A session from the empty boundary: the boundary is drawn, closed and     *)
(* edited with every gesture of the input layer.  While the boundary is    *)
(* open each click goes to the next free cell, or back to the first vertex *)
(* to close; the grid has the cells a closed boundary needs.               *)

TrailCells == 0..(MinClosed - 1)

Trail(S) == Len(S.history) <= MaxTrail

\* map 'click' at grid cell c
TrailClick(c) ==
    LET S == handleMapClick(Store, listeners, Spot(c).x, Spot(c).y)
    IN /\ \/ state.coastline.isClosed
          \/ c = Len(state.coastline.points)
          \/ c = 0 /\ Len(state.coastline.points) >= MinClosed
       /\ Trail(S)
       /\ Finish(S, "MapClick")
       /\ UNCHANGED <<listeners, draggingPointId>>

\* the commit button, enabled by the main subscriber when the edit is a
\* replacement with both anchors
canCommit(s) ==
    /\ IsSome(s.pendingEdit)
    /\ Get(s.pendingEdit).type = "replace"
    /\ IsSome(Get(s.pendingEdit).startAnchorId)
    /\ IsSome(Get(s.pendingEdit).endAnchorId)

TrailCommit ==
    LET S == dispatch(Store, listeners, "COMMIT_EDIT", None)
    IN /\ canCommit(state)
       /\ Trail(S)
       /\ Finish(S, "COMMIT_EDIT")
       /\ UNCHANGED <<listeners, draggingPointId>>

\* the cancel button, enabled while an edit is pending
TrailCancel ==
    LET S == dispatch(Store, listeners, "CANCEL_EDIT", None)
    IN /\ IsSome(state.pendingEdit)
       /\ Trail(S)
       /\ Finish(S, "CANCEL_EDIT")
       /\ UNCHANGED <<listeners, draggingPointId>>

\* a sub-mode radio button
TrailSubMode(value) ==
    LET S == dispatch(dispatch(Store, listeners, "SET_COASTLINE_SUBMODE", value),
                      listeners, "CANCEL_EDIT", None)
    IN /\ hasEditUI
       /\ Trail(S)
       /\ Finish(S, "SubModeChange")
       /\ UNCHANGED <<listeners, draggingPointId>>

\* map 'mousemove' over grid cell c
TrailMove(c) ==
    LET S == dispatch(Store, listeners, "MOVE_POINT",
                      [id |-> Get(draggingPointId), x |-> Spot(c).x, y |-> Spot(c).y])
    IN /\ IsSome(draggingPointId)
       /\ Trail(S)
       /\ Finish(S, "MOVE_POINT")
       /\ UNCHANGED <<listeners, draggingPointId>>

\* the undo button and Ctrl+Z, taken in the first steps of the session
TrailUndo ==
    /\ Len(history) <= MaxUndo
    /\ Finish(undo(Store, listeners), "undo")
    /\ UNCHANGED <<listeners, draggingPointId>>

InitTrail == InitWith(createInitialState, FALSE)

NextTrail ==
    \/ \E c \in TrailCells : TrailClick(c)
    \/ TrailCommit
    \/ TrailCancel
    \/ \E value \in SubModes : TrailSubMode(value)
    \/ MouseDownOnPoint(1)
    \/ TrailMove(MaxCoord)
    \/ MouseUp
    \/ TrailUndo

SpecTrail == InitTrail /\ [][NextTrail]_vars

----------------------------------------------------------------------------
(* A long drag: the store is constructed in the 'move' sub-mode, the first *)
(* vertex is held, and every 'mousemove' carries it one cell to the right. *)
(* Each state of a run differs from all earlier ones, and the run is long  *)
(* enough to fill the history.  undo() (Ctrl+Z) may come at any time.      *)

HeldState == [ClosedState(MinClosed) EXCEPT !.coastlineSubMode = "move"]

InitHistory ==
    /\ state = HeldState
    /\ history = <<>>
    /\ listeners = <<>>
    /\ draggingPointId = Some(HeldState.coastline.points[1].id)
    /\ hasEditUI = TRUE
    /\ delivered = <<>>
    /\ ret = None
    /\ last = [op |-> "init", state |-> HeldState, listeners |-> <<>>, sent |-> <<>>,
               histLen |-> 0, top |-> None]
    /\ run = [pre |-> <<>>, undos |-> 0, clean |-> TRUE]
    /\ heap = newHeap(HeldState)

DragRight ==
    LET held == state.coastline.points[1]
        S == dispatch(Store, listeners, "MOVE_POINT",
                      [id |-> Get(draggingPointId), x |-> held.x + 1, y |-> held.y])
    IN /\ IsSome(draggingPointId)
       /\ held.id = Get(draggingPointId)
       /\ held.x < MaxMoves
       /\ Finish(S, "MOVE_POINT")
       /\ UNCHANGED <<listeners, draggingPointId>>

NextHistory ==
    \/ DragRight
    \/ UndoClick
    \/ \E l \in Listeners : Subscribe(l)
    \/ \E l \in Listeners : Unsubscribe(l)

SpecHistory == InitHistory /\ [][NextHistory]_vars

----------------------------------------------------------------------------
(* The store called directly: dispatch(type, payload) and undo() are the   *)
(* public interface of AppState, and the reducer takes whatever action a   *)
(* caller sends, in any state: ids that no vertex has, actions with        *)
(* nothing to act on, a type outside ActionType.                           *)

StoreIds == {1, MaxN, MaxN + 1}        \* ids a caller names; the last is no vertex's at first
UnknownType == "NO_SUCH_ACTION"        \* reaches the default branch

\* The pending edits a caller sets: none, a new edit with its start anchor,
\* an edit completed with an end anchor and the ids the preview found.
StoreEdits(s) ==
    {None}
    \cup { Some([ type |-> "replace", points |-> <<>>, startAnchorId |-> Some(1),
                  endAnchorId |-> None, replacedPointIds |-> None ]) }
    \cup { Some([ type |-> "replace", points |-> <<>>, startAnchorId |-> Some(p[1]),
                  endAnchorId |-> Some(p[2]),
                  replacedPointIds |-> Some(findReplacedPointIds(s, p[1], p[2])) ]) :
             p \in {q \in StoreIds \X StoreIds : q[1] < q[2]} }

WithinCalls(S) == Len(S.history) <= MaxCalls

\* dispatch('ADD_POINT', {x, y})
DispatchAddPoint(c) ==
    LET S == dispatch(Store, listeners, "ADD_POINT", [x |-> Spot(c).x, y |-> Spot(c).y])
    IN /\ WithinCalls(S)
       /\ Finish(S, "ADD_POINT")
       /\ UNCHANGED <<listeners, draggingPointId>>

\* dispatch('SET_PENDING_EDIT', edit)
DispatchSetPendingEdit(edit) ==
    LET S == dispatch(Store, listeners, "SET_PENDING_EDIT", edit)
    IN /\ WithinCalls(S)
       /\ Finish(S, "SET_PENDING_EDIT")
       /\ UNCHANGED <<listeners, draggingPointId>>

\* dispatch('REMOVE_POINT', id)
DispatchRemovePoint(id) ==
    LET S == dispatch(Store, listeners, "REMOVE_POINT", id)
    IN /\ WithinCalls(S)
       /\ Finish(S, "REMOVE_POINT")
       /\ UNCHANGED <<listeners, draggingPointId>>

\* dispatch('MOVE_POINT', {id, x, y})
DispatchMovePoint(id, c) ==
    LET S == dispatch(Store, listeners, "MOVE_POINT",
                      [id |-> id, x |-> Spot(c).x, y |-> Spot(c).y])
    IN /\ WithinCalls(S)
       /\ Finish(S, "MOVE_POINT")
       /\ UNCHANGED <<listeners, draggingPointId>>

\* dispatch(type, null) for the actions that carry no payload
NullTypes == {"CLOSE_COASTLINE", "COMMIT_EDIT", "CANCEL_EDIT", "UNDO", UnknownType}

DispatchNull(type) ==
    LET S == dispatch(Store, listeners, type, None)
    IN /\ WithinCalls(S)
       /\ Finish(S, type)
       /\ UNCHANGED <<listeners, draggingPointId>>

\* A snapshot holding an open boundary of n vertices, as the constructor's
\* initialState argument.
OpenState(n) == [ClosedState(n) EXCEPT !.coastline.isClosed = FALSE]

\* Empty, Closeable and Closed stores
StoreStates == {createInitialState, OpenState(MinClosed), ClosedState(MaxN)}

\* dispatch('LOAD_STATE', snapshot): the snapshot replaces the current one
DispatchLoadState(snapshot) ==
    LET S == dispatch(Store, listeners, "LOAD_STATE", snapshot)
    IN /\ WithinCalls(S)
       /\ Finish(S, "LOAD_STATE")
       /\ UNCHANGED <<listeners, draggingPointId>>

InitStore == \E s0 \in StoreStates : InitWith(s0, FALSE)

NextStore ==
    \/ DispatchAddPoint(MaxCoord)
    \/ \E edit \in StoreEdits(state) : DispatchSetPendingEdit(edit)
    \/ \E id \in StoreIds : DispatchRemovePoint(id)
    \/ \E id \in StoreIds : DispatchMovePoint(id, MaxCoord)
    \/ \E type \in NullTypes : DispatchNull(type)
    \/ DispatchLoadState(OpenState(MinClosed))
    \/ UndoClick

SpecStore == InitStore /\ [][NextStore]_vars

----------------------------------------------------------------------------
(* The shipped listeners.  init() constructs the four modes, each of which  *)
(* subscribes () => this.render(), and then subscribes the main UI          *)
(* refresher.  A callback is run by listeners.forEach inside dispatch or    *)
(* undo; what it does to the store is callback(...), and depth counts the   *)
(* dispatch and undo calls that are in progress around the one notifying.   *)

Collaborators == <<"CoastlineMode", "TowerMode", "RoadMode", "SettlementMode", "main">>

RECURSIVE callback(_, _, _, _, _)
RECURSIVE runListeners(_, _, _, _, _)

\* this.listeners.forEach((listener) => listener(event)), from the k-th on
runListeners(S, ls, k, event, depth) ==
    IF k > Len(ls) THEN S
    ELSE LET called == [S EXCEPT !.out = Append(S.out,
                           [to |-> ls[k], event |-> event, seen |-> S.state,
                            depth |-> depth])]
         IN runListeners(callback(ls[k], called, ls, event, depth), ls, k + 1, event, depth)

\* dispatch(type, payload) with the callbacks run
dispatchAndRun(S, ls, type, payload, depth) ==
    LET stepped == dispatch(S, <<>>, type, payload)
        event == [type |-> type, payload |-> payload,
                  previousState |-> deepClone(S.state), newState |-> stepped.state]
    IN runListeners(stepped, ls, 1, event, depth)

\* undo() with the callbacks run
undoAndRun(S, ls, depth) ==
    IF Len(S.history) = 0 THEN undo(S, <<>>)
    ELSE LET event == [type |-> "UNDO", payload |-> None,
                       previousState |-> S.state,
                       newState |-> S.history[Len(S.history)]]
         IN runListeners(undo(S, <<>>), ls, 1, event, depth)

\* CoastlineMode cancels the pending edit from its callback when the
\* sub-mode changes
callback_CancelsEdit(l, S, ls, event, depth) ==
    IF l = "CoastlineMode" /\ event.type = "SET_COASTLINE_SUBMODE"
    THEN dispatchAndRun(S, ls, "CANCEL_EDIT", None, depth + 1)
    ELSE S

\* render() of a mode, or the refresh of the buttons and of the options
\* panel: getState() is read, layers and DOM nodes are rebuilt and handlers
\* attached; the store is not called
callback(l, S, ls, event, depth) == S

CollabAddPoint(c) ==
    LET S == dispatchAndRun(Store, listeners, "ADD_POINT",
                            [x |-> Spot(c).x, y |-> Spot(c).y], 0)
    IN /\ WithinCalls(S)
       /\ Finish(S, "ADD_POINT")
       /\ UNCHANGED <<listeners, draggingPointId>>

CollabSetPendingEdit(edit) ==
    LET S == dispatchAndRun(Store, listeners, "SET_PENDING_EDIT", edit, 0)
    IN /\ WithinCalls(S)
       /\ Finish(S, "SET_PENDING_EDIT")
       /\ UNCHANGED <<listeners, draggingPointId>>

CollabNull(type) ==
    LET S == dispatchAndRun(Store, listeners, type, None, 0)
    IN /\ WithinCalls(S)
       /\ Finish(S, type)
       /\ UNCHANGED <<listeners, draggingPointId>>

\* a sub-mode radio button: two dispatches, one after the other
CollabSubMode(value) ==
    LET S == dispatchAndRun(
                 dispatchAndRun(Store, listeners, "SET_COASTLINE_SUBMODE", value, 0),
                 listeners, "CANCEL_EDIT", None, 0)
    IN /\ WithinCalls(S)
       /\ Finish(S, "SubModeChange")
       /\ UNCHANGED <<listeners, draggingPointId>>

CollabUndo ==
    /\ Finish(undoAndRun(Store, listeners, 0), "undo")
    /\ UNCHANGED <<listeners, draggingPointId>>

InitCollab ==
    \E s0 \in StoreStates :
        /\ state = s0
        /\ history = <<>>
        /\ listeners = Collaborators
        /\ draggingPointId = None
        /\ hasEditUI = s0.coastline.isClosed
        /\ delivered = <<>>
        /\ ret = None
        /\ last = [op |-> "init", state |-> s0, listeners |-> Collaborators, sent |-> <<>>,
                   histLen |-> 0, top |-> None]
        /\ run = [pre |-> <<>>, undos |-> 0, clean |-> FALSE]
        /\ heap = newHeap(s0)

NextCollab ==
    \/ CollabAddPoint(MaxCoord)
    \/ \E edit \in StoreEdits(state) : CollabSetPendingEdit(edit)
    \/ \E type \in {"CLOSE_COASTLINE", "COMMIT_EDIT", "CANCEL_EDIT"} : CollabNull(type)
    \/ \E value \in SubModes : CollabSubMode(value)
    \/ CollabUndo

SpecCollab == InitCollab /\ [][NextCollab]_vars

----------------------------------------------------------------------------
(* Persistence: the save button writes createSaveData(...) as JSON text,    *)
(* the file is put in the data folder, and the next page load reads it and *)
(* dispatches LOAD_STATE on the new store.  The text of a number is its    *)
(* decimal digits; an id is a string and is written as it is.              *)

RECURSIVE numberToJson(_)
numberToJson(n) ==
    IF n < 10 THEN <<n>> ELSE Append(numberToJson(n \div 10), n % 10)

RECURSIVE jsonToNumber(_)
jsonToNumber(digits) ==
    IF Len(digits) = 0 THEN 0
    ELSE 10 * jsonToNumber(SubSeq(digits, 1, Len(digits) - 1)) + digits[Len(digits)]

\* createSaveData(coastline, ...): the coastline object is passed on as it is
createSaveData(coastline) == [version |-> 1, coastline |-> coastline]

\* JSON.stringify(data, null, 2)
stringify(data) ==
    [ version |-> numberToJson(data.version),
      coastline |->
        [ points |-> [k \in 1..Len(data.coastline.points) |->
                        [ id |-> data.coastline.points[k].id,
                          x |-> numberToJson(data.coastline.points[k].x),
                          y |-> numberToJson(data.coastline.points[k].y) ]],
          isClosed |-> IF data.coastline.isClosed THEN "true" ELSE "false" ] ]

\* response.json()
parse(json) ==
    [ version |-> jsonToNumber(json.version),
      coastline |->
        [ points |-> [k \in 1..Len(json.coastline.points) |->
                        [ id |-> json.coastline.points[k].id,
                          x |-> jsonToNumber(json.coastline.points[k].x),
                          y |-> jsonToNumber(json.coastline.points[k].y) ]],
          isClosed |-> json.coastline.isClosed = "true" ] ]

\* init() on the new page: appState is a new AppState(), and
\* dispatch('LOAD_STATE', {...appState.getState(), coastline: savedData.coastline})
loadSavedData(savedData) ==
    LET fresh == [ state |-> createInitialState, history |-> <<>>,
                   out |-> <<>>, fired |-> FALSE, ret |-> None,
                   run |-> [pre |-> <<>>, undos |-> 0, clean |-> FALSE],
                   sent |-> <<>> ]
    IN dispatch(fresh, <<>>, "LOAD_STATE",
                [createInitialState EXCEPT !.coastline = savedData.coastline])

\* save button, then a page load with the saved file in the data folder
SaveAndReload ==
    LET S == loadSavedData(parse(stringify(createSaveData(state.coastline))))
    IN /\ Len(state.coastline.points) <= MaxN
       /\ state' = S.state
       /\ history' = S.history
       /\ listeners' = <<>>
       /\ draggingPointId' = None
       /\ hasEditUI' = FALSE
       /\ delivered' = S.out
       /\ ret' = S.ret
       /\ run' = S.run
       /\ last' = [ op |-> "SaveAndReload", state |-> state, listeners |-> listeners,
                    sent |-> S.sent, histLen |-> 0, top |-> None ]
       /\ UNCHANGED heap

\* The store is used, then saved and loaded again: the behaviours end with
\* the page load.
NextPersist ==
    \/ last.op # "SaveAndReload" /\ NextStore
    \/ SaveAndReload

SpecPersist == InitStore /\ [][NextPersist]_vars

----------------------------------------------------------------------------
(* The store with its objects.  dispatch and undo are followed at the level *)
(* of addresses: deepClone builds new objects throughout, the reducer       *)
(* builds a new snapshot object with spread syntax and reuses the vertex    *)
(* objects it does not change, and undo makes the popped entry the current  *)
(* snapshot.  heap.prior is the history as it was before the last call.     *)

RefsOf(R) ==
    {R.self} \cup {R.points[k] : k \in 1..Len(R.points)}
             \cup {R.drafts[k] : k \in 1..Len(R.drafts)}

MaxAddr(H) == Max(RefsOf(H.live) \cup UNION {RefsOf(H.hist[k]) : k \in 1..Len(H.hist)})

\* the snapshot itself is returned, not a copy
cloneRefs_Shares(R, base) == R

\* JSON.parse(JSON.stringify(obj)): new objects throughout
cloneRefs(R, base) ==
    [ self |-> base + 1,
      points |-> [k \in 1..Len(R.points) |-> base + 1 + k],
      drafts |-> [k \in 1..Len(R.drafts) |-> base + 1 + Len(R.points) + k] ]

\* points.filter((p) => p.id !== pointId): the vertex objects that stay
RECURSIVE keepRefs(_, _, _)
keepRefs(refs, points, pointId) ==
    IF Len(refs) = 0 THEN <<>>
    ELSE (IF Head(points).id # pointId THEN <<Head(refs)>> ELSE <<>>)
         \o keepRefs(Tail(refs), Tail(points), pointId)

\* the objects of reduce(s, type, payload), s being made of the objects R
reduceRefs(R, s, type, payload, base) ==
    CASE type = "SET_COASTLINE_SUBMODE" -> [R EXCEPT !.self = base + 1]
      [] type = "ADD_POINT" ->
            IF s.coastline.isClosed
            THEN [self |-> base + 2, points |-> R.points, drafts |-> Append(R.drafts, base + 1)]
            ELSE [self |-> base + 2, points |-> Append(R.points, base + 1), drafts |-> R.drafts]
      [] type = "CLOSE_COASTLINE" -> [R EXCEPT !.self = base + 1]
      [] type = "SET_PENDING_EDIT" ->
            \* the edit is the caller's object
            [ self |-> base + 1, points |-> R.points,
              drafts |-> IF IsSome(payload)
                         THEN [k \in 1..Len(Get(payload).points) |-> base + 1 + k]
                         ELSE <<>> ]
      [] type = "COMMIT_EDIT" ->
            IF ~IsSome(s.pendingEdit) THEN R
            ELSE LET pe == Get(s.pendingEdit)
                     startIdx == findIndex(s.coastline.points, Get(pe.startAnchorId))
                     endIdx == findIndex(s.coastline.points, Get(pe.endAnchorId))
                 IN IF pe.type = "add"
                    THEN [self |-> base + 1, points |-> R.points \o R.drafts, drafts |-> <<>>]
                    ELSE IF /\ pe.type = "replace"
                            /\ IsSome(pe.startAnchorId) /\ IsSome(pe.endAnchorId)
                            /\ startIdx # -1 /\ endIdx # -1
                    THEN [ self |-> base + 1,
                           points |-> buildNewPoints(R.points, startIdx, endIdx, R.drafts),
                           drafts |-> <<>> ]
                    ELSE [self |-> base + 1, points |-> R.points, drafts |-> <<>>]
      [] type = "CANCEL_EDIT" -> [self |-> base + 1, points |-> R.points, drafts |-> <<>>]
      [] type = "REMOVE_POINT" ->
            [ self |-> base + 1,
              points |-> keepRefs(R.points, s.coastline.points, payload),
              drafts |-> R.drafts ]
      [] type = "MOVE_POINT" ->
            [ self |-> base + 1,
              points |-> [k \in 1..Len(R.points) |->
                            IF s.coastline.points[k].id = payload.id
                            THEN base + 1 + k ELSE R.points[k]],
              drafts |-> R.drafts ]
      [] type = "LOAD_STATE" -> newRefs(payload, base)
      [] OTHER -> R

\* dispatch(type, payload)
dispatchRefs(H, s, type, payload) ==
    LET previousState == cloneRefs(H.live, MaxAddr(H))
        hist == IF type # "UNDO" THEN pushHistory(H.hist, previousState) ELSE H.hist
        base == MaxAddr(H) + 1 + Len(H.live.points) + Len(H.live.drafts)
    IN [live |-> reduceRefs(H.live, s, type, payload, base), hist |-> hist]

\* undo()
undoRefs(H) ==
    IF Len(H.hist) = 0 THEN [live |-> H.live, hist |-> H.hist]
    ELSE [live |-> H.hist[Len(H.hist)], hist |-> SubSeq(H.hist, 1, Len(H.hist) - 1)]

\* Addresses carry no meaning but identity: they are renumbered in the order
\* in which the objects are met from the current snapshot on.
RECURSIVE flatten(_)
flatten(rs) ==
    IF Len(rs) = 0 THEN <<>>
    ELSE <<Head(rs).self>> \o Head(rs).points \o Head(rs).drafts \o flatten(Tail(rs))

RECURSIVE distinctInOrder(_, _)
distinctInOrder(met, acc) ==
    IF Len(met) = 0 THEN acc
    ELSE distinctInOrder(Tail(met),
                         IF \E i \in 1..Len(acc) : acc[i] = Head(met)
                         THEN acc ELSE Append(acc, Head(met)))

\* H with each address replaced by its place in objects
renumber(H, objects) ==
    LET name(a) == CHOOSE i \in 1..Len(objects) : objects[i] = a
        named(R) == [ self |-> name(R.self),
                      points |-> [k \in 1..Len(R.points) |-> name(R.points[k])],
                      drafts |-> [k \in 1..Len(R.drafts) |-> name(R.drafts[k])] ]
    IN [ live |-> named(H.live), hist |-> [k \in 1..Len(H.hist) |-> named(H.hist[k])],
         prior |-> history ]

\* the variables after a store call that ends with store S and objects H
FinishWithObjects(S, H, op) ==
    /\ state' = S.state
    /\ history' = S.history
    /\ delivered' = S.out
    /\ ret' = S.ret
    /\ run' = S.run
    /\ hasEditUI' = (hasEditUI \/ (S.fired /\ S.state.coastline.isClosed))
    /\ last' = [ op |-> op, state |-> state, listeners |-> listeners,
                 sent |-> S.sent,
                 histLen |-> Len(history),
                 top |-> IF Len(history) > 0 THEN Some(history[Len(history)]) ELSE None ]
    /\ \E objects \in {distinctInOrder(flatten(<<H.live>> \o H.hist), <<>>)} :
          heap' = renumber(H, objects)
    /\ UNCHANGED <<listeners, draggingPointId>>

ObjectDispatch(type, payload) ==
    LET S == dispatch(Store, listeners, type, payload)
    IN /\ WithinCalls(S)
       /\ \E H \in {dispatchRefs(heap, state, type, payload)} :
             FinishWithObjects(S, H, type)

ObjectUndo ==
    \E H \in {undoRefs(heap)} :
        FinishWithObjects(undo(Store, listeners), H, "undo")

\* The callers of the store by the objects they hand in: one vertex that
\* exists and one id that is no vertex's, no edit, an edit just started and
\* an edit with both anchors.
ObjectIds == {1, MaxN + 1}
ObjectEdits(s) ==
    {edit \in StoreEdits(s) :
        IsSome(edit) /\ IsSome(Get(edit).endAnchorId) =>
            /\ Get(edit).startAnchorId = Some(1)
            /\ Get(edit).endAnchorId = Some(MaxN)}
ObjectTypes == NullTypes \ {UnknownType}

NextObjects ==
    \/ ObjectDispatch("ADD_POINT", [x |-> Spot(MaxCoord).x, y |-> Spot(MaxCoord).y])
    \/ \E edit \in ObjectEdits(state) : ObjectDispatch("SET_PENDING_EDIT", edit)
    \/ \E id \in ObjectIds : ObjectDispatch("REMOVE_POINT", id)
    \/ \E id \in ObjectIds :
          ObjectDispatch("MOVE_POINT", [id |-> id, x |-> Spot(MaxCoord).x, y |-> Spot(MaxCoord).y])
    \/ \E type \in ObjectTypes : ObjectDispatch(type, None)
    \/ ObjectDispatch("LOAD_STATE", OpenState(MinClosed))
    \/ ObjectUndo

SpecObjects == InitStore /\ [][NextObjects]_vars

\* The same callers on the store of the application, to which the four
\* modes and the main refresher are subscribed.
SpecDirect == InitCollab /\ [][NextObjects]_vars

----------------------------------------------------------------------------
(* The whole snapshot.  AppStateData holds, next to the coastline fields,   *)
(* the towers, the settlements, the roads and the fields of the selection.  *)
(* The reducer branches of the coastline copy these with ...state, and the  *)
(* branches of the other kinds copy the coastline fields the same way.      *)

defaultPower == 200
defaultSize == 1

\* createInitialState(), every field
initialAppStateData ==
    [ currentMode |-> "coastline",
      coastlineSubMode |-> "add",
      coastline |-> [points |-> <<>>, isClosed |-> FALSE],
      towers |-> [towers |-> <<>>],
      settlements |-> [settlements |-> <<>>],
      roads |-> [roads |-> <<>>],
      pendingEdit |-> None,
      isBackgroundVisible |-> TRUE,
      selectedTowerType |-> "aquagen",
      selectedTowerPower |-> defaultPower,
      selectedSettlementSize |-> defaultSize,
      selectedRoadSafe |-> TRUE,
      pendingRoadStartId |-> None,
      selectedTowerId |-> None,
      selectedSettlementId |-> None ]

\* A saved document: a closed boundary of MaxN vertices under a Replace edit
\* with both anchors, a tower, two settlements, a road between them, a tower
\* selected and a road begun.
workingAppStateData ==
    [ initialAppStateData EXCEPT
        !.coastline = ClosedState(MaxN).coastline,
        !.pendingEdit = Some([ type |-> "replace", points |-> <<>>,
                               startAnchorId |-> Some(1), endAnchorId |-> Some(MinClosed),
                               replacedPointIds |->
                                   Some(findReplacedPointIds(ClosedState(MaxN), 1, MinClosed)) ]),
        !.towers.towers = <<[id |-> MaxN + 1, x |-> 0, y |-> 1, type |-> "aquagen",
                             power |-> defaultPower]>>,
        !.settlements.settlements =
            << [id |-> MaxN + 2, x |-> 1, y |-> 0, name |-> "", size |-> defaultSize],
               [id |-> MaxN + 3, x |-> 2, y |-> 1, name |-> "", size |-> defaultSize] >>,
        !.roads.roads = <<[id |-> MaxN + 4, startSettlementId |-> MaxN + 2,
                           endSettlementId |-> MaxN + 3, safe |-> TRUE]>>,
        !.pendingRoadStartId = Some(MaxN + 2),
        !.selectedTowerId = Some(MaxN + 1) ]

\* JSON.parse(JSON.stringify(obj)) on the whole snapshot
deepCloneAll(w) ==
    [ currentMode |-> w.currentMode,
      coastlineSubMode |-> w.coastlineSubMode,
      coastline |-> deepClone(w).coastline,
      towers |-> [towers |-> [k \in 1..Len(w.towers.towers) |->
                    [ id |-> w.towers.towers[k].id, x |-> w.towers.towers[k].x,
                      y |-> w.towers.towers[k].y, type |-> w.towers.towers[k].type,
                      power |-> w.towers.towers[k].power ]]],
      settlements |-> [settlements |-> [k \in 1..Len(w.settlements.settlements) |->
                    [ id |-> w.settlements.settlements[k].id,
                      x |-> w.settlements.settlements[k].x,
                      y |-> w.settlements.settlements[k].y,
                      name |-> w.settlements.settlements[k].name,
                      size |-> w.settlements.settlements[k].size ]]],
      roads |-> [roads |-> [k \in 1..Len(w.roads.roads) |->
                    [ id |-> w.roads.roads[k].id,
                      startSettlementId |-> w.roads.roads[k].startSettlementId,
                      endSettlementId |-> w.roads.roads[k].endSettlementId,
                      safe |-> w.roads.roads[k].safe ]]],
      pendingEdit |-> deepClone(w).pendingEdit,
      isBackgroundVisible |-> w.isBackgroundVisible,
      selectedTowerType |-> w.selectedTowerType,
      selectedTowerPower |-> w.selectedTowerPower,
      selectedSettlementSize |-> w.selectedSettlementSize,
      selectedRoadSafe |-> w.selectedRoadSafe,
      pendingRoadStartId |-> w.pendingRoadStartId,
      selectedTowerId |-> w.selectedTowerId,
      selectedSettlementId |-> w.selectedSettlementId ]

\* the ids of the towers, settlements and roads of a snapshot
EntityIdsOf(w) ==
    {w.towers.towers[k].id : k \in 1..Len(w.towers.towers)}
    \cup {w.settlements.settlements[k].id : k \in 1..Len(w.settlements.settlements)}
    \cup {w.roads.roads[k].id : k \in 1..Len(w.roads.roads)}

\* generateId() for a snapshot with every kind of entity: an id that none of
\* them has, in the current snapshot or in the history
generateIdAll(w, h) ==
    1 + Max({generateId(w, h) - 1} \cup EntityIdsOf(w)
            \cup UNION {EntityIdsOf(h[k]) : k \in 1..Len(h)})

\* list.filter((e) => e.id !== id)
withoutId(list, id) == SelectSeq(list, LAMBDA e : e.id # id)

\* list.map((e) => e.id === updated.id ? updated : e)
withUpdated(list, updated) ==
    [k \in 1..Len(list) |-> IF list[k].id = updated.id THEN updated ELSE list[k]]

reduceAddTower(w, payload, newId) ==
    LET newTower == [ id |-> newId, x |-> payload.x, y |-> payload.y,
                      type |-> w.selectedTowerType, power |-> w.selectedTowerPower ]
    IN [w EXCEPT !.towers = [towers |-> Append(w.towers.towers, newTower)]]

reduceAddSettlement(w, payload, newId) ==
    LET newSettlement == [ id |-> newId, x |-> payload.x, y |-> payload.y,
                           name |-> "", size |-> w.selectedSettlementSize ]
    IN [w EXCEPT !.settlements =
            [settlements |-> Append(w.settlements.settlements, newSettlement)]]

\* the road is added and the pending edit of the coastline is dropped
reduceAddRoad_DropsEdit(w, payload, newId) ==
    LET newRoad == [ id |-> newId, startSettlementId |-> payload.startSettlementId,
                     endSettlementId |-> payload.endSettlementId,
                     safe |-> w.selectedRoadSafe ]
    IN [w EXCEPT !.roads = [roads |-> Append(w.roads.roads, newRoad)],
                 !.pendingEdit = None]

reduceAddRoad(w, payload, newId) ==
    LET newRoad == [ id |-> newId, startSettlementId |-> payload.startSettlementId,
                     endSettlementId |-> payload.endSettlementId,
                     safe |-> w.selectedRoadSafe ]
    IN [w EXCEPT !.roads = [roads |-> Append(w.roads.roads, newRoad)],
                 !.pendingRoadStartId = None]

\* reduce(state, type, payload), every branch
reduceAll(w, type, payload, newId) ==
    CASE type = "SET_MODE" -> [w EXCEPT !.currentMode = payload]
      [] type = "SET_BACKGROUND_VISIBLE" -> [w EXCEPT !.isBackgroundVisible = payload]
      [] type = "ADD_TOWER" -> reduceAddTower(w, payload, newId)
      [] type = "REMOVE_TOWER" ->
            [w EXCEPT !.towers = [towers |-> withoutId(w.towers.towers, payload)]]
      [] type = "UPDATE_TOWER" ->
            [w EXCEPT !.towers = [towers |-> withUpdated(w.towers.towers, payload)]]
      [] type = "SET_TOWER_TYPE" -> [w EXCEPT !.selectedTowerType = payload]
      [] type = "SET_TOWER_POWER" -> [w EXCEPT !.selectedTowerPower = payload]
      [] type = "ADD_SETTLEMENT" -> reduceAddSettlement(w, payload, newId)
      [] type = "REMOVE_SETTLEMENT" ->
            [w EXCEPT !.settlements =
                [settlements |-> withoutId(w.settlements.settlements, payload)]]
      [] type = "UPDATE_SETTLEMENT" ->
            [w EXCEPT !.settlements =
                [settlements |-> withUpdated(w.settlements.settlements, payload)]]
      [] type = "SET_SETTLEMENT_SIZE" -> [w EXCEPT !.selectedSettlementSize = payload]
      [] type = "ADD_ROAD" -> reduceAddRoad(w, payload, newId)
      [] type = "REMOVE_ROAD" ->
            [w EXCEPT !.roads = [roads |-> withoutId(w.roads.roads, payload)]]
      [] type = "UPDATE_ROAD" ->
            [w EXCEPT !.roads = [roads |-> withUpdated(w.roads.roads, payload)]]
      [] type = "SET_ROAD_SAFE" -> [w EXCEPT !.selectedRoadSafe = payload]
      [] type = "SET_PENDING_ROAD_START" -> [w EXCEPT !.pendingRoadStartId = payload]
      [] type = "SELECT_TOWER" -> [w EXCEPT !.selectedTowerId = payload]
      [] type = "SELECT_SETTLEMENT" -> [w EXCEPT !.selectedSettlementId = payload]
      \* the branches of the coastline, LOAD_STATE, UNDO and default
      [] OTHER -> reduce(w, type, payload, newId)

\* dispatch(type, payload) on the whole snapshot
dispatchAll(S, ls, type, payload) ==
    LET previousState == deepCloneAll(S.state)
        newHistory == IF type # "UNDO" THEN pushHistory(S.history, previousState) ELSE S.history
        newState == reduceAll(S.state, type, payload, generateIdAll(S.state, S.history))
        event == [type |-> type, payload |-> payload,
                  previousState |-> previousState, newState |-> newState]
    IN [ state |-> newState,
         history |-> newHistory,
         out |-> S.out \o notify(ls, event, newState),
         fired |-> TRUE,
         ret |-> None,
         run |-> runAfterDispatch(S.run, S.state),
         sent |-> Append(S.sent, [type |-> type, payload |-> payload]) ]

\* the calls made on a store that holds a whole snapshot; the last call may
\* find a history of MaxCalls - 1 entries
AllDispatch(type, payload) ==
    LET S == dispatchAll(Store, listeners, type, payload)
    IN /\ Len(S.history) < MaxCalls
       /\ Finish(S, type)
       /\ UNCHANGED <<listeners, draggingPointId>>

\* an id of each list, and one that nothing has
IdsToName(list) == {list[k].id : k \in 1..Len(list)} \cup {0}

\* a cell of the grid as {x, y}
PayloadAt(c) == [x |-> Spot(c).x, y |-> Spot(c).y]

NextCoastlineKind ==
    \/ AllDispatch("ADD_POINT", PayloadAt(MaxCoord))
    \/ \E id \in ObjectIds : AllDispatch("REMOVE_POINT", id)
    \/ \E id \in ObjectIds :
          AllDispatch("MOVE_POINT", [id |-> id, x |-> Spot(MaxCoord).x, y |-> Spot(MaxCoord).y])
    \/ AllDispatch("CLOSE_COASTLINE", None)
    \/ \E edit \in ObjectEdits(state) : AllDispatch("SET_PENDING_EDIT", edit)
    \/ AllDispatch("COMMIT_EDIT", None)
    \/ AllDispatch("CANCEL_EDIT", None)

NextTowerKind ==
    \/ AllDispatch("ADD_TOWER", PayloadAt(MaxCoord))
    \/ \E id \in IdsToName(state.towers.towers) : AllDispatch("REMOVE_TOWER", id)
    \/ \E k \in 1..Len(state.towers.towers) :
          AllDispatch("UPDATE_TOWER", [state.towers.towers[k] EXCEPT !.power = @ + 1])
    \/ AllDispatch("SET_TOWER_TYPE", "aerogen")
    \/ AllDispatch("SET_TOWER_POWER", defaultPower + 1)
    \/ \E id \in IdsToName(state.towers.towers) :
          AllDispatch("SELECT_TOWER", IF id = 0 THEN None ELSE Some(id))

NextSettlementKind ==
    \/ AllDispatch("ADD_SETTLEMENT", PayloadAt(MaxCoord))
    \/ \E id \in IdsToName(state.settlements.settlements) : AllDispatch("REMOVE_SETTLEMENT", id)
    \/ \E k \in 1..Len(state.settlements.settlements) :
          AllDispatch("UPDATE_SETTLEMENT",
                      [state.settlements.settlements[k] EXCEPT !.name = "port"])
    \/ AllDispatch("SET_SETTLEMENT_SIZE", defaultSize + 1)
    \/ \E id \in IdsToName(state.settlements.settlements) :
          AllDispatch("SELECT_SETTLEMENT", IF id = 0 THEN None ELSE Some(id))

NextRoadKind ==
    \/ \E a, b \in IdsToName(state.settlements.settlements) \ {0} :
          a < b /\ AllDispatch("ADD_ROAD", [startSettlementId |-> a, endSettlementId |-> b])
    \/ \E id \in IdsToName(state.roads.roads) : AllDispatch("REMOVE_ROAD", id)
    \/ \E k \in 1..Len(state.roads.roads) :
          AllDispatch("UPDATE_ROAD", [state.roads.roads[k] EXCEPT !.safe = ~@])
    \/ AllDispatch("SET_ROAD_SAFE", FALSE)
    \/ \E id \in IdsToName(state.settlements.settlements) :
          AllDispatch("SET_PENDING_ROAD_START", IF id = 0 THEN None ELSE Some(id))

InitAll == \E w0 \in {initialAppStateData, workingAppStateData} : InitWith(w0, FALSE)

NextAll ==
    \/ NextCoastlineKind
    \/ NextTowerKind
    \/ NextSettlementKind
    \/ NextRoadKind

SpecAll == InitAll /\ [][NextAll]_vars

----------------------------------------------------------------------------
(* The boundary [A, B, C, D, E] under edit: a closed boundary of five       *)
(* vertices on the cells 0..4, one free cell for the draft vertices, and    *)
(* the clicks, buttons and undo of the editing steps.                      *)

ExampleState == ClosedState(5)

ExampleCells == 0..Len(ExampleState.coastline.points)

ExampleClick(c) ==
    LET S == handleMapClick(Store, listeners, Spot(c).x, Spot(c).y)
    IN /\ Within(S)
       /\ Finish(S, "MapClick")
       /\ UNCHANGED <<listeners, draggingPointId>>

InitExample == InitWith(ExampleState, FALSE)

NextExample ==
    \/ \E c \in ExampleCells : ExampleClick(c)
    \/ CommitEdit
    \/ CancelEdit
    \/ UndoClick

SpecExample == InitExample /\ [][NextExample]_vars

----------------------------------------------------------------------------
(* A boundary of six vertices under edit: a closed boundary [A, B, C, D, E, *)
(* F] on the cells 0..5, one free cell for the draft vertices, and the      *)
(* clicks, buttons and undo of the editing steps.  Six is the least number  *)
(* of vertices with a pair of anchors whose forward arc passes the end of   *)
(* the array and is as long as the backward one between two vertices of     *)
(* the second half.                                                         *)

LoopState == ClosedState(2 * MinClosed)

LoopCells == 0..Len(LoopState.coastline.points)

LoopClick(c) ==
    LET S == handleMapClick(Store, listeners, Spot(c).x, Spot(c).y)
    IN /\ Within(S)
       /\ Finish(S, "MapClick")
       /\ UNCHANGED <<listeners, draggingPointId>>

InitLoop == InitWith(LoopState, FALSE)

NextLoop ==
    \/ \E c \in LoopCells : LoopClick(c)
    \/ CommitEdit
    \/ CancelEdit
    \/ UndoClick

SpecLoop == InitLoop /\ [][NextLoop]_vars

----------------------------------------------------------------------------
(* Vocabulary of the properties.  Arcs are given in closed form, apart     *)
(* from the loops of the source.                                           *)

DistinctIds(points) ==
    \A i, j \in 1..Len(points) : i # j => points[i].id # points[j].id

Resolves(points, id) == \E k \in 1..Len(points) : points[k].id = id

\* 0-based index of the vertex with this id, in a list with distinct ids
IndexOfId(points, id) == CHOOSE k \in 0..(Len(points) - 1) : At(points, k).id = id

ArcCW(s, e, n) == [k \in 1..((e - s - 1 + n) % n) |-> (s + k) % n]

ArcCCW(s, e, n) == [k \in 1..((s - e - 1 + n) % n) |-> (s - k + n) % n]

CWChosen(s, e, n) == Len(ArcCW(s, e, n)) <= Len(ArcCCW(s, e, n))

ChosenArc(s, e, n) == IF CWChosen(s, e, n) THEN ArcCW(s, e, n) ELSE ArcCCW(s, e, n)

UntouchedArc(s, e, n) == IF CWChosen(s, e, n) THEN ArcCCW(s, e, n) ELSE ArcCW(s, e, n)

IdsAt(points, idxs) == [k \in 1..Len(idxs) |-> At(points, idxs[k]).id]

Range(f) == {f[k] : k \in DOMAIN f}

IdSeq(points) == [k \in 1..Len(points) |-> points[k].id]

Occurrences(points, id) == Cardinality({k \in 1..Len(points) : points[k].id = id})

Rotations(q) == {[k \in 1..Len(q) |-> q[((k - 1 + r) % Len(q)) + 1]] : r \in 0..(Len(q) - 1)}

\* The snapshot the last handler started from, and its parts
PrePoints == last.state.coastline.points
PreEdit == Get(last.state.pendingEdit)
PreStartIdx == IndexOfId(PrePoints, Get(PreEdit.startAnchorId))
PreEndIdx == IndexOfId(PrePoints, Get(PreEdit.endAnchorId))
NewPoints == state.coastline.points

\* The last step was COMMIT_EDIT on a closed boundary of n >= 3 vertices with
\* distinct ids, with a Replace edit whose two anchors resolve and differ.
ReplaceCommitted ==
    /\ last.op = "COMMIT_EDIT"
    /\ IsSome(last.state.pendingEdit)
    /\ PreEdit.type = "replace"
    /\ IsSome(PreEdit.startAnchorId) /\ IsSome(PreEdit.endAnchorId)
    /\ last.state.coastline.isClosed
    /\ Len(PrePoints) >= 3
    /\ DistinctIds(PrePoints)
    /\ Resolves(PrePoints, Get(PreEdit.startAnchorId))
    /\ Resolves(PrePoints, Get(PreEdit.endAnchorId))
    /\ PreEdit.startAnchorId # PreEdit.endAnchorId

----------------------------------------------------------------------------
(* C1: after CommitEdit on a Replace edit with both anchors resolved, on a *)
(* closed boundary of n >= 3 vertices with distinct ids, the boundary has  *)
(* n - len(chosenArc) + len(draftPoints) vertices, for anchors in either   *)
(* order in the stored sequence.                                           *)
C1_CommitLength ==
    ReplaceCommitted =>
        Len(NewPoints) = Len(PrePoints)
                         - Len(ChosenArc(PreStartIdx, PreEndIdx, Len(PrePoints)))
                         + Len(PreEdit.points)

(* C2: after such a CommitEdit the boundary holds each anchor exactly      *)
(* once, every vertex of the untouched arc exactly once and in its         *)
(* original cyclic order, and no interior vertex of the chosen arc.        *)
C2_CommitKeepsUntouchedArc ==
    ReplaceCommitted =>
        LET n == Len(PrePoints)
            chosenIds == Range(IdsAt(PrePoints, ChosenArc(PreStartIdx, PreEndIdx, n)))
            keptBefore == SelectSeq(IdSeq(PrePoints), LAMBDA id : id \notin chosenIds)
            keptAfter == SelectSeq(IdSeq(NewPoints), LAMBDA id : id \in Range(IdSeq(PrePoints)))
        IN /\ Occurrences(NewPoints, Get(PreEdit.startAnchorId)) = 1
           /\ Occurrences(NewPoints, Get(PreEdit.endAnchorId)) = 1
           /\ \A id \in Range(IdsAt(PrePoints, UntouchedArc(PreStartIdx, PreEndIdx, n))) :
                 Occurrences(NewPoints, id) = 1
           /\ \A id \in chosenIds : Occurrences(NewPoints, id) = 0
           /\ keptAfter \in Rotations(keptBefore)

(* C3: on CommitEdit the draft vertices lie between the two anchors, as   *)
(* drawn when the chosen arc is CW and reversed when it is CCW: walking    *)
(* the committed boundary from the start anchor across the new section     *)
(* (forward for CW, backward for CCW) visits the draft vertices in the     *)
(* order they were added and then reaches the end anchor.                  *)
C3_DraftOrder ==
    ReplaceCommitted =>
        LET n == Len(PrePoints)
            draft == PreEdit.points
            d == Len(draft)
            cw == CWChosen(PreStartIdx, PreEndIdx, n)
            \* 0-based place of the start anchor next to the new section
            from == IF cw THEN PreStartIdx ELSE PreEndIdx + d + 1
            step == IF cw THEN 1 ELSE -1
        IN /\ from + step * (d + 1) \in 0..(Len(NewPoints) - 1)
           /\ At(NewPoints, from) = At(PrePoints, PreStartIdx)
           /\ \A k \in 1..d : At(NewPoints, from + step * k) = draft[k]
           /\ At(NewPoints, from + step * (d + 1)) = At(PrePoints, PreEndIdx)

C3_Witness ==
    /\ ReplaceCommitted
    /\ ~CWChosen(PreStartIdx, PreEndIdx, Len(PrePoints))
    /\ Len(PreEdit.points) >= 2

(* C4: in a closed boundary of n >= 3 vertices and for any two distinct    *)
(* anchor indices, the forward and the backward walk, of CommitEdit and of *)
(* the preview, have lengths that add up to n - 2, share no vertex and     *)
(* hold no anchor; with adjacent anchors one of them is empty.             *)
C4_ArcLengths ==
    LET points == state.coastline.points
        n == Len(points)
    IN (state.coastline.isClosed /\ n >= 3) =>
        \A s, e \in 0..(n - 1) : s # e =>
            LET cw == commitPathCW(s, e, n)
                ccw == commitPathCCW(s, e, n)
                idcw == idsCW(points, (s + 1) % n, e, <<>>)
                idccw == idsCCW(points, (s - 1 + n) % n, e, <<>>)
            IN /\ Len(cw) + Len(ccw) = n - 2
               /\ Range(cw) \cap Range(ccw) = {}
               /\ {s, e} \cap (Range(cw) \cup Range(ccw)) = {}
               /\ (e = (s + 1) % n) => Len(cw) = 0
               /\ (e = (s - 1 + n) % n) => Len(ccw) = 0
               /\ Len(idcw) + Len(idccw) = n - 2
               /\ DistinctIds(points) =>
                    /\ Range(idcw) \cap Range(idccw) = {}
                    /\ {At(points, s).id, At(points, e).id} \cap (Range(idcw) \cup Range(idccw)) = {}

\* An end anchor was set next to the start anchor: the preview walked an
\* empty arc.
C4_Witness ==
    /\ state.coastline.isClosed
    /\ Len(state.coastline.points) >= 4
    /\ IsSome(state.pendingEdit)
    /\ IsSome(Get(state.pendingEdit).endAnchorId)
    /\ Get(state.pendingEdit).replacedPointIds = Some(<<>>)

\* The pending edit has both anchors, on a closed boundary with distinct ids
EndAnchorSet ==
    /\ IsSome(state.pendingEdit)
    /\ IsSome(Get(state.pendingEdit).startAnchorId)
    /\ IsSome(Get(state.pendingEdit).endAnchorId)
    /\ state.coastline.isClosed
    /\ Len(state.coastline.points) >= 3
    /\ DistinctIds(state.coastline.points)
    /\ Resolves(state.coastline.points, Get(Get(state.pendingEdit).startAnchorId))
    /\ Resolves(state.coastline.points, Get(Get(state.pendingEdit).endAnchorId))

CurStartIdx == IndexOfId(state.coastline.points, Get(Get(state.pendingEdit).startAnchorId))
CurEndIdx == IndexOfId(state.coastline.points, Get(Get(state.pendingEdit).endAnchorId))

(* C5: the arc chosen for replacement is pathCW iff len(pathCW) <=         *)
(* len(pathCCW), CW on equal lengths, and the replacedIds SetEndAnchor     *)
(* stored are the ids of that arc in the order the walk visits them.       *)
C5_ChosenArc ==
    EndAnchorSet =>
        LET points == state.coastline.points
            n == Len(points)
        IN /\ Get(state.pendingEdit).replacedPointIds =
                Some(IdsAt(points, ChosenArc(CurStartIdx, CurEndIdx, n)))
           /\ useCW(CurStartIdx, CurEndIdx, n) <=> CWChosen(CurStartIdx, CurEndIdx, n)

\* Both arcs are equally long and the forward one was stored.
C5_Witness ==
    /\ EndAnchorSet
    /\ Len(ArcCW(CurStartIdx, CurEndIdx, Len(state.coastline.points))) = 1
    /\ Len(ArcCCW(CurStartIdx, CurEndIdx, Len(state.coastline.points))) = 1
    /\ Get(state.pendingEdit).replacedPointIds =
         Some(IdsAt(state.coastline.points, ArcCW(CurStartIdx, CurEndIdx, Len(state.coastline.points))))

\* The last step was COMMIT_EDIT on a Replace edit with no end anchor
CommittedWithoutEndAnchor ==
    /\ last.op = "COMMIT_EDIT"
    /\ IsSome(last.state.pendingEdit)
    /\ PreEdit.type = "replace"
    /\ ~IsSome(PreEdit.endAnchorId)

(* C10: CommitEdit on a Replace edit that has no endAnchorId leaves the    *)
(* vertex sequence and isClosed as they were and sets the PendingEdit to   *)
(* none, whatever draft points the edit holds.                             *)
C10_CommitWithoutEndAnchor ==
    CommittedWithoutEndAnchor =>
        /\ state.coastline.points = last.state.coastline.points
        /\ state.coastline.isClosed = last.state.coastline.isClosed
        /\ state.pendingEdit = None

C10_Witness ==
    /\ CommittedWithoutEndAnchor
    /\ Len(PreEdit.points) >= 2
    /\ state.pendingEdit = None

----------------------------------------------------------------------------
(* The history.  While run.clean, run.pre lists the snapshots that were    *)
(* current just before each dispatch made so far, none of them Undo, and   *)
(* run.undos counts the undo() calls made since, all in a row.             *)

(* C6: after a sequence of non-Undo dispatches, k undo() calls in a row,   *)
(* 1 <= k <= min(50, dispatches made), leave the current state equal in    *)
(* content to the state current just before the k-th most recent dispatch. *)
C6_UndoRestoresKthLast ==
    (run.clean /\ run.undos >= 1 /\ run.undos <= Min(maxHistory, Len(run.pre))) =>
        state = run.pre[Len(run.pre) - run.undos + 1]

C6_Witness ==
    /\ run.clean
    /\ Len(run.pre) > maxHistory
    /\ run.undos = maxHistory
    /\ state = run.pre[Len(run.pre) - maxHistory + 1]

(* C7: the history never holds more than 50 snapshots.                     *)
C7_HistoryBounded == Len(history) <= maxHistory

\* A dispatch has just pushed onto a full history.
C7_Witness ==
    /\ last.op = "MOVE_POINT"
    /\ last.histLen = maxHistory
    /\ Len(history) = maxHistory

(* C8: eviction is FIFO.  After m > 50 dispatches in a row the history     *)
(* holds the pre-dispatch snapshots of the 50 most recent ones in order;   *)
(* exactly 50 undo() calls in a row succeed and the next returns false;    *)
(* the states that preceded the first m - 50 dispatches are out of reach.  *)
C8_FifoEviction ==
    (run.clean /\ Len(run.pre) > maxHistory) =>
        LET m == Len(run.pre)
        IN /\ run.undos <= maxHistory
           /\ history = SubSeq(run.pre, m - maxHistory + 1, m - run.undos)
           /\ last.op = "undo" => (ret = Some(TRUE) <=> last.histLen > 0)
           /\ (last.op = "undo" /\ last.histLen = 0) => (run.undos = maxHistory /\ state = last.state)
           /\ \A i \in 1..(m - maxHistory) :
                /\ state # run.pre[i]
                /\ \A k \in 1..Len(history) : history[k] # run.pre[i]

\* The 51st undo() in a row after more than 50 dispatches: it returned false.
C8_Witness ==
    /\ run.clean
    /\ Len(run.pre) > maxHistory
    /\ run.undos = maxHistory
    /\ last.op = "undo"
    /\ last.histLen = 0
    /\ ret = Some(FALSE)

(* C9: undo() on an empty history returns false, leaves the current state  *)
(* as it was and calls no listener; on a non-empty history it returns      *)
(* true, makes the most recently pushed snapshot the current state and     *)
(* calls every listener once with an UNDO event whose previous state is    *)
(* the state before the call and whose next state is the restored one.     *)
C9_Undo ==
    last.op = "undo" =>
        IF last.histLen = 0
        THEN /\ ret = Some(FALSE)
             /\ state = last.state
             /\ history = <<>>
             /\ delivered = <<>>
        ELSE /\ ret = Some(TRUE)
             /\ state = Get(last.top)
             /\ Len(history) = last.histLen - 1
             /\ Len(delivered) = Len(last.listeners)
             /\ \A j \in 1..Len(last.listeners) :
                    Cardinality({k \in 1..Len(delivered) : delivered[k].to = last.listeners[j]}) = 1
             /\ \A k \in 1..Len(delivered) :
                    delivered[k].event = [ type |-> "UNDO", payload |-> None,
                                           previousState |-> last.state, newState |-> state ]

\* undo() restored a snapshot that differs from the state it replaced, with
\* two listeners or more subscribed.
C9_Witness ==
    /\ last.op = "undo"
    /\ ret = Some(TRUE)
    /\ state # last.state
    /\ Len(last.listeners) >= 2
    /\ Len(delivered) = Len(last.listeners)

----------------------------------------------------------------------------
(* Single actions.  last.sent lists what the last handler dispatched.      *)

\* The last handler made exactly one dispatch, of this action type
Sent(type) == Len(last.sent) = 1 /\ last.sent[1].type = type

SentPayload == last.sent[1].payload

\* The last step was COMMIT_EDIT on a Replace edit that names two anchors of
\* which one at least is no vertex of the boundary
CommittedDangling ==
    /\ Sent("COMMIT_EDIT")
    /\ IsSome(last.state.pendingEdit)
    /\ PreEdit.type = "replace"
    /\ IsSome(PreEdit.startAnchorId) /\ IsSome(PreEdit.endAnchorId)
    /\ \/ ~Resolves(PrePoints, Get(PreEdit.startAnchorId))
       \/ ~Resolves(PrePoints, Get(PreEdit.endAnchorId))

(* C11: CommitEdit on a Replace edit whose startAnchorId or endAnchorId    *)
(* matches no vertex of the boundary discards the PendingEdit and leaves   *)
(* the boundary (vertices and isClosed) as it was.                         *)
C11_CommitDanglingAnchor ==
    CommittedDangling =>
        /\ state.pendingEdit = None
        /\ state.coastline = last.state.coastline

\* The end anchor was a vertex when the edit was set and was removed since.
C11_Witness ==
    /\ CommittedDangling
    /\ Resolves(PrePoints, Get(PreEdit.startAnchorId))
    /\ \E k \in 1..Len(history) :
          /\ history[k].pendingEdit = last.state.pendingEdit
          /\ Resolves(history[k].coastline.points, Get(PreEdit.endAnchorId))
    /\ state.pendingEdit = None

(* C12: CancelEdit discards any PendingEdit and never changes the          *)
(* boundary; a second CancelEdit changes nothing more, and CancelEdit with *)
(* no PendingEdit leaves the boundary and the PendingEdit as they were.    *)
C12_CancelIdempotent ==
    Sent("CANCEL_EDIT") =>
        /\ state.pendingEdit = None
        /\ state.coastline = last.state.coastline
        /\ ~IsSome(last.state.pendingEdit) => state = last.state
        /\ dispatch(Store, listeners, "CANCEL_EDIT", None).state = state

\* CancelEdit with nothing pending, right after an edit was discarded.
C12_Witness ==
    /\ Sent("CANCEL_EDIT")
    /\ ~IsSome(last.state.pendingEdit)
    /\ Len(history) >= 2
    /\ IsSome(history[Len(history) - 1].pendingEdit)
    /\ state = last.state

(* C13: RemoveVertex(id) on a closed boundary with 3 or fewer vertices is  *)
(* rejected and leaves the boundary unchanged; with more than 3 vertices   *)
(* it removes exactly the vertex with that id: the length drops by 1 and   *)
(* the other vertices keep their order.                                    *)
C13_RemoveVertex ==
    (Sent("REMOVE_POINT") /\ last.state.coastline.isClosed /\ DistinctIds(PrePoints)) =>
        IF Len(PrePoints) <= 3
        THEN state.coastline = last.state.coastline
        ELSE Resolves(PrePoints, SentPayload) =>
                /\ Len(NewPoints) = Len(PrePoints) - 1
                /\ NewPoints = SelectSeq(PrePoints, LAMBDA q : q.id # SentPayload)
                /\ state.coastline.isClosed

(* C14: each dispatch calls every subscribed listener exactly once, within *)
(* the dispatch and after the state was replaced: during each call         *)
(* getState() is the event's next state, and the event's previous state    *)
(* equals the state that was current before the dispatch.                  *)
C14_DispatchNotifies ==
    (Len(last.sent) = 1) =>
        /\ Len(delivered) = Len(last.listeners)
        /\ \A j \in 1..Len(last.listeners) :
              Cardinality({k \in 1..Len(delivered) : delivered[k].to = last.listeners[j]}) = 1
        /\ \A k \in 1..Len(delivered) :
              /\ delivered[k].event.type = last.sent[1].type
              /\ delivered[k].event.newState = state
              /\ delivered[k].seen = delivered[k].event.newState
              /\ delivered[k].event.previousState = last.state

\* A dispatch that changed the state, with two listeners subscribed.
C14_Witness ==
    /\ Sent("MOVE_POINT")
    /\ Len(last.listeners) >= 2
    /\ Len(delivered) = Len(last.listeners)
    /\ state # last.state
    /\ delivered[1].seen = state

\* The action just dispatched had nothing to act on in the snapshot it met.
PreconditionNotMet ==
    /\ Len(last.sent) = 1
    /\ \/ last.sent[1].type = UnknownType
       \/ last.sent[1].type = "COMMIT_EDIT" /\ ~IsSome(last.state.pendingEdit)
       \/ last.sent[1].type = "REMOVE_POINT" /\ ~Resolves(PrePoints, SentPayload)
       \/ last.sent[1].type = "MOVE_POINT" /\ ~Resolves(PrePoints, SentPayload.id)

(* C15: a dispatch with an action type the reducer does not know, or with  *)
(* a precondition that is not met (a vertex id that no vertex has, no      *)
(* PendingEdit to commit), leaves the content of the current snapshot as   *)
(* it was.  The reducer is a total function: it has a value, and not an    *)
(* error, for each of these.                                               *)
C15_NoOpDispatch ==
    PreconditionNotMet => state = last.state

\* An unknown action type met a snapshot with a pending edit.
C15_Witness ==
    /\ Sent(UnknownType)
    /\ IsSome(last.state.pendingEdit)
    /\ state = last.state
    /\ Len(history) = last.histLen + 1

(* C16: every dispatch of a type other than Undo pushes exactly one copy   *)
(* of the pre-dispatch state onto the history, also when the reducer       *)
(* returns its input unchanged; a dispatch of type Undo pushes nothing.    *)
C16_DispatchPushesOnce ==
    (Len(last.sent) = 1) =>
        IF last.sent[1].type # "UNDO"
        THEN /\ Len(history) = Min(maxHistory, last.histLen + 1)
             /\ history[Len(history)] = last.state
             /\ (last.histLen >= 1 /\ last.histLen < maxHistory) =>
                    history[Len(history) - 1] = Get(last.top)
        ELSE /\ Len(history) = last.histLen
             /\ last.histLen >= 1 => history[Len(history)] = Get(last.top)

\* A dispatch of type Undo that pushed nothing, made right after a dispatch of
\* MoveVertex with an unknown id that changed nothing and was pushed.
C16_Witness ==
    /\ Sent("UNDO")
    /\ Len(history) = last.histLen
    /\ Len(history) >= 2
    /\ history[Len(history)] = state
    /\ history[Len(history) - 1] = state

\* AddVertex was dispatched on an open boundary
AddedToOpen == Sent("ADD_POINT") /\ ~last.state.coastline.isClosed

(* C17: AddVertex(x, y) on an open boundary appends exactly one new vertex *)
(* with coordinates (x, y) at the end of the sequence, keeps the earlier   *)
(* vertices and their order, leaves isClosed false and leaves the          *)
(* PendingEdit untouched.                                                  *)
C17_AddVertexOpen ==
    AddedToOpen =>
        LET n == Len(PrePoints)
        IN /\ Len(NewPoints) = n + 1
           /\ SubSeq(NewPoints, 1, n) = PrePoints
           /\ NewPoints[n + 1].x = SentPayload.x
           /\ NewPoints[n + 1].y = SentPayload.y
           /\ ~Resolves(PrePoints, NewPoints[n + 1].id)
           /\ ~state.coastline.isClosed
           /\ state.pendingEdit = last.state.pendingEdit

\* A vertex added to a Closeable boundary while a pending edit was set.
C17_Witness ==
    /\ AddedToOpen
    /\ Len(PrePoints) >= 3
    /\ IsSome(last.state.pendingEdit)
    /\ Len(NewPoints) = Len(PrePoints) + 1

\* AddVertex was dispatched while Editing, before an end anchor was set
AddedWhileEditing ==
    /\ Sent("ADD_POINT")
    /\ last.state.coastline.isClosed
    /\ IsSome(last.state.pendingEdit)
    /\ IsSome(PreEdit.startAnchorId)
    /\ ~IsSome(PreEdit.endAnchorId)

EndAnchorJustSet ==
    /\ last.op = "MapClick"
    /\ Sent("SET_PENDING_EDIT")
    /\ IsSome(last.state.pendingEdit)

(* C19: SetEndAnchor stores endAnchorId and replacedIds on the PendingEdit, *)
(* keeps its startAnchorId and draft points as they were, and does not      *)
(* change the boundary.                                                     *)
C19_SetEndAnchor ==
    EndAnchorJustSet =>
        /\ IsSome(state.pendingEdit)
        /\ LET pe == Get(state.pendingEdit)
           IN /\ IsSome(pe.endAnchorId)
              /\ Resolves(PrePoints, Get(pe.endAnchorId))
              /\ IsSome(pe.replacedPointIds)
              /\ pe.type = PreEdit.type
              /\ pe.startAnchorId = PreEdit.startAnchorId
              /\ pe.points = PreEdit.points
        /\ state.coastline = last.state.coastline

\* An end anchor set on an edit that holds draft vertices, with a vertex to
\* replace.
C19_Witness ==
    /\ EndAnchorJustSet
    /\ Len(PreEdit.points) >= 1
    /\ IsSome(Get(state.pendingEdit).replacedPointIds)
    /\ Len(Get(Get(state.pendingEdit).replacedPointIds)) >= 1

(* C20: MoveVertex(id, x, y) changes only the coordinates of the vertex    *)
(* whose id matches: length, order, ids, isClosed and the PendingEdit are  *)
(* unchanged, and with an id that no vertex has the boundary is unchanged. *)
C20_MoveVertex ==
    Sent("MOVE_POINT") =>
        /\ Len(NewPoints) = Len(PrePoints)
        /\ \A k \in 1..Len(PrePoints) :
              /\ NewPoints[k].id = PrePoints[k].id
              /\ IF PrePoints[k].id = SentPayload.id
                 THEN NewPoints[k].x = SentPayload.x /\ NewPoints[k].y = SentPayload.y
                 ELSE NewPoints[k] = PrePoints[k]
        /\ state.coastline.isClosed = last.state.coastline.isClosed
        /\ state.pendingEdit = last.state.pendingEdit
        /\ ~Resolves(PrePoints, SentPayload.id) => state.coastline = last.state.coastline

\* The first vertex of a boundary under edit was moved to another place.
C20_Witness ==
    /\ Sent("MOVE_POINT")
    /\ Len(PrePoints) >= 4
    /\ PrePoints[1].id = SentPayload.id
    /\ NewPoints[1] # PrePoints[1]
    /\ IsSome(state.pendingEdit)

----------------------------------------------------------------------------
(* Invariants of the boundary *)

(* C21: in every state reachable by AddVertex, CloseLoop, StartReplacement, *)
(* SetEndAnchor, CommitEdit, CancelEdit, RemoveVertex, MoveVertex and undo, *)
(* no two vertices of the boundary have the same id.                        *)
C21_UniqueIds == DistinctIds(state.coastline.points)

(* C22: in every state reached from the empty boundary through the input   *)
(* layer (map and point clicks, drags, commit, cancel, sub-mode switches)   *)
(* and undo, a closed boundary has at least 3 vertices, and its last        *)
(* vertex is not the first one stored again to close the cycle.             *)
C22_ClosedHasThree ==
    state.coastline.isClosed =>
        /\ Len(state.coastline.points) >= 3
        /\ state.coastline.points[Len(state.coastline.points)] # state.coastline.points[1]

\* the boundary was closed before the last call and is open after it
Reopened == last.state.coastline.isClosed /\ ~state.coastline.isClosed

(* C23: a closed boundary stays closed under ADD_POINT, REMOVE_POINT,       *)
(* MOVE_POINT, CLOSE_COASTLINE, SET_PENDING_EDIT, COMMIT_EDIT and           *)
(* CANCEL_EDIT: a call that leaves a closed boundary open is undo() or a    *)
(* dispatch of LOAD_STATE.                                                  *)
C23_StaysClosed ==
    Reopened => (last.op = "undo" \/ Sent("LOAD_STATE"))

\* a vertex was removed from a closed boundary of three, which stays closed
C23_Witness ==
    /\ Sent("REMOVE_POINT")
    /\ last.state.coastline.isClosed
    /\ Len(last.state.coastline.points) = MinClosed
    /\ Len(state.coastline.points) = MinClosed - 1
    /\ state.coastline.isClosed

----------------------------------------------------------------------------
(* Adjacent anchors *)

\* the sequence read cyclically from its 0-based index i
RotateTo(q, i) == [k \in 1..Len(q) |-> q[((k - 1 + i) % Len(q)) + 1]]

\* the end anchor is the vertex after, or before, the start anchor
EndIsNext == PreEndIdx = (PreStartIdx + 1) % Len(PrePoints)
EndIsPrevious == PreStartIdx = (PreEndIdx + 1) % Len(PrePoints)

(* C28: when CommitEdit runs with an end anchor that is a cyclic neighbour  *)
(* of the start anchor (the next or the previous vertex, the pair of the   *)
(* last and the first stored vertex included), replacedPointIds is empty   *)
(* and the result is the original cyclic boundary with the draft vertices  *)
(* between the two anchors: n + len(draft) vertices, read cyclically the   *)
(* start anchor, the draft as drawn, the end anchor, then the other        *)
(* vertices in their original cyclic order.                                *)
C28_AdjacentAnchors ==
    (ReplaceCommitted /\ (EndIsNext \/ EndIsPrevious)) =>
        /\ PreEdit.replacedPointIds = Some(<<>>)
        /\ Len(NewPoints) = Len(PrePoints) + Len(PreEdit.points)
        /\ NewPoints \in Rotations(
               IF EndIsNext
               THEN PreEdit.points \o RotateTo(PrePoints, PreEndIdx)
               ELSE Reverse(PreEdit.points) \o RotateTo(PrePoints, PreStartIdx))
        /\ ~IsSome(state.pendingEdit)

----------------------------------------------------------------------------
(* The reducer as a function *)

\* reduce(s, type, payload) gives one snapshot whatever generateId() returns
SameForAllDraws(type, payload) ==
    \A id1, id2 \in generateIdDraws(state, history) :
        reduce(state, type, payload, id1) = reduce(state, type, payload, id2)

(* C29: the reducer is deterministic: the same action type and payload      *)
(* applied to the same snapshot give the same snapshot, for ADD_POINT,      *)
(* CLOSE_COASTLINE, SET_PENDING_EDIT, COMMIT_EDIT, CANCEL_EDIT,             *)
(* REMOVE_POINT and MOVE_POINT.                                             *)
C29_ReducerDeterministic ==
    /\ SameForAllDraws("ADD_POINT", [x |-> Spot(MaxCoord).x, y |-> Spot(MaxCoord).y])
    /\ \A type \in {"CLOSE_COASTLINE", "COMMIT_EDIT", "CANCEL_EDIT"} :
          SameForAllDraws(type, None)
    /\ \A edit \in StoreEdits(state) : SameForAllDraws("SET_PENDING_EDIT", edit)
    /\ \A id \in StoreIds :
          /\ SameForAllDraws("REMOVE_POINT", id)
          /\ SameForAllDraws("MOVE_POINT",
                             [id |-> id, x |-> Spot(MaxCoord).x, y |-> Spot(MaxCoord).y])

----------------------------------------------------------------------------
(* The worked example *)

\* the id of the k-th vertex of [A, B, C, D, E]
ExampleId(k) == ExampleState.coastline.points[k].id

\* the edit before the last step: start anchor A, draft [X, Y]
ExampleDraft ==
    /\ last.state.coastline = ExampleState.coastline
    /\ IsSome(last.state.pendingEdit)
    /\ PreEdit.type = "replace"
    /\ PreEdit.startAnchorId = Some(ExampleId(1))
    /\ Len(PreEdit.points) = 2

\* the last step was SetEndAnchor(C) on that edit
ExampleAnchored ==
    /\ EndAnchorJustSet
    /\ ExampleDraft
    /\ ~IsSome(PreEdit.endAnchorId)
    /\ IsSome(state.pendingEdit)
    /\ Get(state.pendingEdit).endAnchorId = Some(ExampleId(3))

\* the last step was CommitEdit on that edit with end anchor C
ExampleCommitted ==
    /\ last.op = "COMMIT_EDIT"
    /\ ExampleDraft
    /\ PreEdit.endAnchorId = Some(ExampleId(3))

(* C27: on the closed boundary [A,B,C,D,E], with start anchor A and draft   *)
(* [X,Y], SetEndAnchor(C) gives pathCW = [B], pathCCW = [E,D], the CW arc   *)
(* chosen and replacedPointIds = [B]; CommitEdit then gives the boundary    *)
(* [A,X,Y,C,D,E] with no PendingEdit.                                       *)
C27_WorkedExample ==
    /\ ExampleAnchored =>
          LET points == state.coastline.points
              n == Len(points)
              startIdx == findIndex(points, ExampleId(1))
              endIdx == findIndex(points, ExampleId(3))
          IN /\ idsCW(points, (startIdx + 1) % n, endIdx, <<>>) = <<ExampleId(2)>>
             /\ idsCCW(points, (startIdx - 1 + n) % n, endIdx, <<>>)
                    = <<ExampleId(5), ExampleId(4)>>
             /\ useCW(startIdx, endIdx, n)
             /\ Get(state.pendingEdit).replacedPointIds = Some(<<ExampleId(2)>>)
             /\ Get(state.pendingEdit).points = PreEdit.points
    /\ ExampleCommitted =>
          /\ state.coastline.points
                = <<PrePoints[1]>> \o PreEdit.points \o SubSeq(PrePoints, 3, 5)
          /\ state.coastline.isClosed
          /\ ~IsSome(state.pendingEdit)

\* the example was committed: six vertices, the two drawn ones after A
C27_Witness ==
    /\ ExampleCommitted
    /\ PreEdit.replacedPointIds = Some(<<ExampleId(2)>>)
    /\ Len(state.coastline.points) = 6
    /\ ~Resolves(PrePoints, state.coastline.points[2].id)
    /\ ~Resolves(PrePoints, state.coastline.points[3].id)

----------------------------------------------------------------------------
(* Export and import *)

\* the (x, y) of the vertices, in order
Coordinates(points) == [k \in 1..Len(points) |-> <<points[k].x, points[k].y>>]

(* C26: the boundary exported with createSaveData and imported again with   *)
(* LOAD_STATE has the same ordered sequence of (x, y) and the same isClosed *)
(* value, and its vertex ids are regenerated on import: no vertex comes     *)
(* back with the id it was exported with.                                   *)
C26_RoundTrip ==
    last.op = "SaveAndReload" =>
        /\ Coordinates(NewPoints) = Coordinates(PrePoints)
        /\ state.coastline.isClosed = last.state.coastline.isClosed
        /\ \A k \in 1..Len(NewPoints) : NewPoints[k].id # PrePoints[k].id

----------------------------------------------------------------------------
(* The pending edit *)

(* C24: in every state reached through the input layer and undo, a         *)
(* PendingEdit that is not null belongs to a closed boundary and is a       *)
(* Replace edit with startAnchorId set.                                     *)
C24_PendingEditOnlyWhileEditing ==
    IsSome(state.pendingEdit) =>
        /\ state.coastline.isClosed
        /\ Get(state.pendingEdit).type = "replace"
        /\ IsSome(Get(state.pendingEdit).startAnchorId)

\* a vertex was drawn on an edit begun with a click on a vertex
C24_Witness ==
    /\ last.op = "MapClick"
    /\ Sent("ADD_POINT")
    /\ last.state.coastline.isClosed
    /\ IsSome(state.pendingEdit)
    /\ Len(Get(state.pendingEdit).points) >= 1

----------------------------------------------------------------------------
(* Listeners and the order of events *)

\* the events listener l was called with, oldest first
ReceivedBy(l) ==
    LET calls == SelectSeq(delivered, LAMBDA d : d.to = l)
    IN [k \in 1..Len(calls) |-> calls[k].event]

(* C30: dispatches never nest.  Every callback of CoastlineMode, TowerMode, *)
(* RoadMode, SettlementMode and the main UI subscriber runs with no other   *)
(* dispatch or undo in progress and sees the state its event announces, no  *)
(* dispatch is issued from a callback, all the callbacks of one dispatch    *)
(* run before the next dispatch starts, and each listener receives the      *)
(* events in the order the dispatches were issued.                          *)
C30_NoNestedDispatch ==
    /\ \A k \in 1..Len(delivered) :
          /\ delivered[k].depth = 0
          /\ delivered[k].seen = delivered[k].event.newState
          /\ delivered[k].to = Collaborators[((k - 1) % Len(Collaborators)) + 1]
    /\ last.op \notin {"init", "undo"} =>
          /\ Len(delivered) = Len(Collaborators) * Len(last.sent)
          /\ \A k \in 1..Len(delivered) :
                LET issued == last.sent[((k - 1) \div Len(Collaborators)) + 1]
                IN /\ delivered[k].event.type = issued.type
                   /\ delivered[k].event.payload = issued.payload
          /\ \A j \in 1..Len(Collaborators) :
                [k \in 1..Len(last.sent) |-> ReceivedBy(Collaborators[j])[k].type]
                    = [k \in 1..Len(last.sent) |-> last.sent[k].type]
    /\ last.op = "undo" =>
          /\ Len(delivered) \in {0, Len(Collaborators)}
          /\ \A k \in 1..Len(delivered) : delivered[k].event.type = "UNDO"

\* a radio button changed the sub-mode while an edit was pending: two
\* dispatches, ten callbacks
C30_Witness ==
    /\ last.op = "SubModeChange"
    /\ IsSome(last.state.pendingEdit)
    /\ last.state.coastlineSubMode # state.coastlineSubMode
    /\ Len(last.sent) = 2
    /\ Len(delivered) = 2 * Len(Collaborators)
    /\ delivered[1].event.type = "SET_COASTLINE_SUBMODE"
    /\ delivered[Len(delivered)].event.type = "CANCEL_EDIT"

----------------------------------------------------------------------------
(* Snapshots and aliasing *)

\* the refs describe the snapshots the store holds
RefsMatchStore ==
    /\ Len(heap.live.points) = Len(state.coastline.points)
    /\ Len(heap.live.drafts) =
          (IF IsSome(state.pendingEdit) THEN Len(Get(state.pendingEdit).points) ELSE 0)
    /\ Len(heap.hist) = Len(history)
    /\ \A k \in 1..Len(history) :
          Len(heap.hist[k].points) = Len(history[k].coastline.points)

(* C25: history snapshots are independent of the live state.  After any    *)
(* sequence of dispatch and undo calls no history entry is the object of    *)
(* the current state or has a vertex object in common with it, and a        *)
(* dispatch leaves the entries that were in the history as they were.       *)
C25_HistoryIndependent ==
    /\ \A k \in 1..Len(heap.hist) : RefsOf(heap.hist[k]) \cap RefsOf(heap.live) = {}
    /\ (last.op \notin {"init", "undo"} /\ Len(heap.prior) < maxHistory) =>
          /\ Len(history) >= Len(heap.prior)
          /\ SubSeq(history, 1, Len(heap.prior)) = heap.prior

\* a vertex was moved while the history held a snapshot: the current
\* snapshot keeps the vertex objects that did not move
C25_Witness ==
    /\ RefsMatchStore
    /\ Sent("MOVE_POINT")
    /\ state.coastline.points # last.state.coastline.points
    /\ Len(heap.prior) >= 1
    /\ Len(history) = Len(heap.prior) + 1
    /\ Len(state.coastline.points) >= MinClosed

----------------------------------------------------------------------------
(* Preview and commit *)

\* the ids of the boundary before the commit that the boundary after it
\* does not hold
RemovedIds == Range(IdSeq(PrePoints)) \ Range(IdSeq(NewPoints))

(* C31: preview and commit agree.  For a closed boundary and two distinct  *)
(* anchors, the set of vertex ids that CommitEdit removes from the boundary *)
(* is the set of replacedIds that SetEndAnchor computed for these anchors   *)
(* on this boundary, and both walk the same direction.                      *)
C31_PreviewMatchesCommit ==
    (ReplaceCommitted /\ IsSome(PreEdit.replacedPointIds)) =>
        LET n == Len(PrePoints)
            cw == useCW(PreStartIdx, PreEndIdx, n)
            path == IF cw THEN commitPathCW(PreStartIdx, PreEndIdx, n)
                    ELSE commitPathCCW(PreStartIdx, PreEndIdx, n)
        IN /\ Get(PreEdit.replacedPointIds) =
                findReplacedPointIds(last.state, Get(PreEdit.startAnchorId),
                                     Get(PreEdit.endAnchorId))
           /\ Get(PreEdit.replacedPointIds) = IdsAt(PrePoints, path)
           /\ RemovedIds = Range(Get(PreEdit.replacedPointIds))

----------------------------------------------------------------------------
(* Closing the loop *)

(* C32: CloseLoop is applied unconditionally.  For any number of vertices, *)
(* fewer than 3 included, a CLOSE_COASTLINE dispatch sets isClosed to true  *)
(* and leaves the vertex sequence, the PendingEdit and every other field    *)
(* as they were; it is never rejected.                                      *)
C32_CloseLoopUnconditional ==
    Sent("CLOSE_COASTLINE") =>
        /\ state.coastline.isClosed
        /\ state = [last.state EXCEPT !.coastline.isClosed = TRUE]
        /\ Len(history) = last.histLen + 1

\* an open boundary of fewer than three vertices, with an edit pending, was
\* closed
C32_Witness ==
    /\ Sent("CLOSE_COASTLINE")
    /\ ~last.state.coastline.isClosed
    /\ Len(PrePoints) < MinClosed
    /\ Len(PrePoints) >= 1
    /\ IsSome(last.state.pendingEdit)
    /\ state.coastline.isClosed
    /\ state.coastline.points = PrePoints

----------------------------------------------------------------------------
(* The edit once its end anchor is set *)

\* the last step was AddVertex on a Replace edit whose end anchor is set
AddedAfterEndAnchor ==
    /\ Sent("ADD_POINT")
    /\ last.state.coastline.isClosed
    /\ IsSome(last.state.pendingEdit)
    /\ PreEdit.type = "replace"
    /\ IsSome(PreEdit.startAnchorId)
    /\ IsSome(PreEdit.endAnchorId)

(* C33: once a Replace edit has its end anchor set, AddVertex no longer    *)
(* extends it: the draft points, the anchors, replacedIds and the boundary  *)
(* are after AddVertex as they were before it.                             *)
C33_EndAnchorFreezesEdit ==
    AddedAfterEndAnchor =>
        /\ state.pendingEdit = last.state.pendingEdit
        /\ state.coastline = last.state.coastline

----------------------------------------------------------------------------
(* The two anchors *)

(* C34: while a Replace edit awaits its end anchor, a click on the start   *)
(* anchor cancels the edit and does not make it the end anchor.  So in      *)
(* every PendingEdit reached through the input layer and undo, endAnchorId, *)
(* when set, differs from startAnchorId, and neither anchor is among the    *)
(* replacedIds.                                                             *)
C34_AnchorsDiffer ==
    /\ (last.op = "MapClick" /\ Sent("CANCEL_EDIT")) =>
          /\ state.pendingEdit = None
          /\ state.coastline = last.state.coastline
    /\ (IsSome(state.pendingEdit) /\ IsSome(Get(state.pendingEdit).endAnchorId)) =>
          LET pe == Get(state.pendingEdit)
          IN /\ IsSome(pe.startAnchorId)
             /\ pe.endAnchorId # pe.startAnchorId
             /\ IsSome(pe.replacedPointIds)
             /\ Get(pe.startAnchorId) \notin Range(Get(pe.replacedPointIds))
             /\ Get(pe.endAnchorId) \notin Range(Get(pe.replacedPointIds))

----------------------------------------------------------------------------
(* Sub-modes and the pending edit *)

(* C35: a switch of the coastline sub-mode cancels the pending edit, so at *)
(* rest, in every state reached through sub-mode switches, clicks, drags,   *)
(* commit, cancel and undo, a PendingEdit that is not null goes with the    *)
(* sub-mode 'add'; RemoveVertex and MoveVertex are never applied to the     *)
(* boundary while a Replace edit is pending.                                *)
C35_PendingEditOnlyInAddMode ==
    /\ IsSome(state.pendingEdit) => state.coastlineSubMode = "add"
    /\ (Sent("REMOVE_POINT") \/ Sent("MOVE_POINT")) => ~IsSome(last.state.pendingEdit)

----------------------------------------------------------------------------
(* The action type UNDO *)

(* C36: a dispatch of the action type UNDO restores nothing.  The content  *)
(* of the current state and the history are after it as they were before,  *)
(* and every listener is still called with the event; an earlier snapshot   *)
(* comes back only through undo().                                          *)
C36_DispatchUndoRestoresNothing ==
    /\ Sent("UNDO") =>
          /\ state = last.state
          /\ history = heap.prior
          /\ Len(delivered) = Len(last.listeners)
          /\ \A k \in 1..Len(delivered) :
                /\ delivered[k].to = last.listeners[k]
                /\ delivered[k].event = [ type |-> "UNDO", payload |-> None,
                                          previousState |-> last.state, newState |-> state ]
    /\ (last.op = "undo" /\ Len(heap.prior) > 0) =>
          /\ state = heap.prior[Len(heap.prior)]
          /\ history = SubSeq(heap.prior, 1, Len(heap.prior) - 1)

\* UNDO was dispatched on a history whose last snapshot differs from the
\* current state
C36_Witness ==
    /\ Sent("UNDO")
    /\ Len(history) >= 2
    /\ history[Len(history)] # state
    /\ state = last.state
    /\ Len(delivered) = Len(Collaborators)

----------------------------------------------------------------------------
(* No redo *)

(* C37: undo() takes exactly one entry off the history and puts none on    *)
(* it.  After a successful undo() the state that was current before the    *)
(* call is not in the history, so no further undo() can reach it, and      *)
(* after j successful undo() calls with no dispatch in between the history *)
(* is shorter by exactly j.                                                *)
C37_UndoNoRedo ==
    /\ (last.op = "undo" /\ ret = Some(TRUE)) =>
          /\ Len(history) = last.histLen - 1
          /\ state # last.state
          /\ \A k \in 1..Len(history) : history[k] # last.state
    /\ run.clean =>
          LET m == Len(run.pre)
              held == Min(maxHistory, m)
          IN /\ run.undos <= held
             /\ Len(history) = held - run.undos
             /\ history = SubSeq(run.pre, m - held + 1, m - run.undos)

\* three undo() calls in a row succeeded and the history is not used up
C37_Witness ==
    /\ run.clean
    /\ run.undos >= 3
    /\ last.op = "undo"
    /\ ret = Some(TRUE)
    /\ Len(history) >= 2
    /\ Len(history) = Len(run.pre) - run.undos

----------------------------------------------------------------------------
(* The kinds of entity *)

CoastlineActions ==
    { "ADD_POINT", "REMOVE_POINT", "MOVE_POINT", "CLOSE_COASTLINE",
      "SET_PENDING_EDIT", "COMMIT_EDIT", "CANCEL_EDIT" }

OtherKindActions ==
    { "ADD_TOWER", "REMOVE_TOWER", "UPDATE_TOWER", "SET_TOWER_TYPE", "SET_TOWER_POWER",
      "SELECT_TOWER",
      "ADD_SETTLEMENT", "REMOVE_SETTLEMENT", "UPDATE_SETTLEMENT", "SET_SETTLEMENT_SIZE",
      "SELECT_SETTLEMENT",
      "ADD_ROAD", "REMOVE_ROAD", "UPDATE_ROAD", "SET_ROAD_SAFE", "SET_PENDING_ROAD_START" }

OtherKindFields ==
    { "towers", "settlements", "roads", "selectedTowerType", "selectedTowerPower",
      "selectedSettlementSize", "selectedRoadSafe", "pendingRoadStartId",
      "selectedTowerId", "selectedSettlementId" }

(* C38: the kinds of entity do not interfere.  No coastline action         *)
(* (ADD_POINT, REMOVE_POINT, MOVE_POINT, CLOSE_COASTLINE, SET_PENDING_EDIT, *)
(* COMMIT_EDIT, CANCEL_EDIT) changes the towers, the settlements, the roads *)
(* or the selection fields, and no tower, settlement or road action changes *)
(* the boundary or the PendingEdit.                                         *)
C38_KindsDoNotInterfere ==
    Len(last.sent) = 1 =>
        /\ last.sent[1].type \in CoastlineActions =>
              \A f \in OtherKindFields : state[f] = last.state[f]
        /\ last.sent[1].type \in OtherKindActions =>
              /\ state.coastline = last.state.coastline
              /\ state.pendingEdit = last.state.pendingEdit

\* a road was added between two settlements while a Replace edit was pending
\* on a closed boundary
C38_Witness ==
    /\ Sent("ADD_ROAD")
    /\ Len(state.roads.roads) = Len(last.state.roads.roads) + 1
    /\ state.pendingRoadStartId = None
    /\ IsSome(last.state.pendingRoadStartId)
    /\ IsSome(state.pendingEdit)
    /\ state.coastline.isClosed

----------------------------------------------------------------------------
(* Termination of the walks *)

\* both walks from start index s to end index e end within n - 1 iterations,
\* and the paths of the commit and of the preview have that many entries
WalksEnd(points, s, e) ==
    LET n == Len(points)
        cw == stepsCW((s + 1) % n, e, n, n)
        ccw == stepsCCW((s - 1 + n) % n, e, n, n)
    IN /\ cw <= n - 1
       /\ ccw <= n - 1
       /\ Len(commitPathCW(s, e, n)) = cw
       /\ Len(commitPathCCW(s, e, n)) = ccw
       /\ Len(idsCW(points, (s + 1) % n, e, <<>>)) = cw
       /\ Len(idsCCW(points, (s - 1 + n) % n, e, <<>>)) = ccw

(* C39: the two arc walks always terminate.  For every boundary of n >= 1  *)
(* vertices and every pair of anchor ids that both resolve to a vertex,     *)
(* the same vertex twice included, the forward walk and the backward walk   *)
(* each end after at most n - 1 steps, in the preview and in CommitEdit.    *)
C39_WalksTerminate ==
    LET points == state.coastline.points
    IN \A a, b \in Range(IdSeq(points)) :
          WalksEnd(points, findIndex(points, a), findIndex(points, b))

\* an edit with both anchors was set, with the ids the preview walked, on a
\* boundary where a walk from a vertex back to itself takes n - 1 steps
C39_Witness ==
    /\ Sent("SET_PENDING_EDIT")
    /\ EndAnchorSet
    /\ Len(state.coastline.points) > MinClosed
    /\ stepsCW((CurStartIdx + 1) % Len(state.coastline.points), CurStartIdx,
               Len(state.coastline.points), Len(state.coastline.points))
         = Len(state.coastline.points) - 1

----------------------------------------------------------------------------
(* The order of the anchors *)

\* the indices COMMIT_EDIT replaces for start index s and end index e
CommitArc(s, e, n) ==
    Range(IF useCW(s, e, n) THEN commitPathCW(s, e, n) ELSE commitPathCCW(s, e, n))

\* the arcs chosen for the anchors a then b, and for b then a
OrderIndependent(s, a, b) ==
    LET points == s.coastline.points
        n == Len(points)
        ia == findIndex(points, a)
        ib == findIndex(points, b)
        unequal == Len(commitPathCW(ia, ib, n)) # Len(commitPathCCW(ia, ib, n))
        ab == Range(findReplacedPointIds(s, a, b))
        ba == Range(findReplacedPointIds(s, b, a))
    IN IF unequal
       THEN /\ ab = ba
            /\ CommitArc(ia, ib, n) = CommitArc(ib, ia, n)
       ELSE /\ CommitArc(ia, ib, n) \cap CommitArc(ib, ia, n) = {}
            /\ CommitArc(ia, ib, n) \cup CommitArc(ib, ia, n) = (0..(n - 1)) \ {ia, ib}
            /\ (DistinctIds(points) /\ n > MinClosed) => ab # ba

(* C40: the arc selected does not depend on which anchor was picked first  *)
(* when the two arcs differ in length.  For a closed boundary and distinct *)
(* anchors a and b with arcs of unequal lengths, the set of replacedIds    *)
(* for start a and end b is the set for start b and end a; the two orders  *)
(* select different arcs only when both arcs have the same length.         *)
C40_AnchorOrder ==
    state.coastline.isClosed =>
        \A a, b \in Range(IdSeq(state.coastline.points)) :
            a < b => OrderIndependent(state, a, b)

\* an end anchor was set by a click, the two arcs differ in length, and the
\* ids stored are those the other order gives
C40_Witness ==
    /\ EndAnchorJustSet
    /\ EndAnchorSet
    /\ DistinctIds(state.coastline.points)
    /\ Len(commitPathCW(CurStartIdx, CurEndIdx, Len(state.coastline.points)))
         > Len(commitPathCCW(CurStartIdx, CurEndIdx, Len(state.coastline.points)))
    /\ Len(Get(Get(state.pendingEdit).replacedPointIds)) >= 1
    /\ Range(Get(Get(state.pendingEdit).replacedPointIds))
         = Range(findReplacedPointIds(state, Get(Get(state.pendingEdit).endAnchorId),
                                      Get(Get(state.pendingEdit).startAnchorId)))

====
